---- MODULE Spec2Model ----
(***************************************************************************)
(* Model of the agentic GraphRAG assistant.                                *)
(*                                                                         *)
(*   src/agent/agent.py     the reasoning / tool-execution loop            *)
(*   src/agent/tools.py     the three tools (graph_query, calculator,      *)
(*                          web_search)                                    *)
(*   src/agent/graphrag.py  hybrid retrieval: fusion of vector and         *)
(*                          traversal results                              *)
(*                                                                         *)
(*   src/graph_db/client.py the graph store client                         *)
(*                                                                         *)
(* The specifications share the variables:                                 *)
(*   Spec         one run of AgenticAI.query through the compiled graph    *)
(*   SpecTools    one direct invocation of a tool's _run                   *)
(*   SpecFuse     one fusion pass of hybrid_retrieval                      *)
(*   SpecRank     one call of vector_search                                *)
(*   SpecRetrieve one graph_query invocation over a graph store            *)
(*   SpecConc     several calls of AgenticAI.query, interleaved            *)
(*   SpecRoute    one routing decision of graph_traversal                  *)
(*   SpecRender   _build_context over one node                             *)
(*   SpecOrder    hybrid_retrieval over longer, overlapping results        *)
(*   SpecMalformed  hybrid_retrieval over results with malformed entries   *)
(***************************************************************************)
EXTENDS Integers, Sequences, FiniteSets, TLC

VARIABLES
    pc,             \* position of the run: idle, agent, tools, end, done, aborted
    messages,       \* AgentState.messages, the transcript
    steps,          \* AgentState.steps
    tools_used,     \* AgentState.tools_used, the running collection
    prompt,         \* the message list last handed to llm_with_tools.invoke
    supersteps,     \* node executions performed by graph.invoke so far
    invoked,        \* history: names of the tools ToolNode has run, in the order the runs ended
    output,         \* the dict returned by query, or NoOutput
    call,           \* SpecTools: the tool invocation under test
    tool_result,    \* SpecTools: what the invocation produced, or NoResult
    vector_results,     \* SpecFuse: result of vector_search
    traversal_results,  \* SpecFuse: result of graph_traversal
    context_nodes,      \* SpecFuse: the fused context, or NoContext
    store,          \* the graph behind Neo4jClient: nodes, relationships, failing calls
    embedder,       \* the embedding model: whether encode works, the query's vector
    retrieval,      \* what vector_search / hybrid_retrieval returned, or NoRetrieval
    runs            \* SpecConc: the queries running on one agent

loopVars == <<pc, messages, steps, tools_used, prompt, supersteps, invoked, output>>
toolVars == <<call, tool_result>>
fuseVars == <<vector_results, traversal_results, context_nodes>>
envVars == <<store, embedder, retrieval, runs>>
vars == <<pc, messages, steps, tools_used, prompt, supersteps, invoked, output,
          call, tool_result, vector_results, traversal_results, context_nodes,
          store, embedder, retrieval, runs>>

(***************************************************************************)
(* Bounds                                                                  *)
(***************************************************************************)
\* Reasoning rounds in which the reasoning capability may answer with any
\* list of tool calls; in later rounds it answers with TailCall or nothing.
MaxRichRounds == 1
\* Largest number of tool calls in one reasoning response.
MaxCalls == 2
\* Longest calculator expression enumerated exhaustively.
MaxExprLen == 4
\* Largest number of entries in a vector result, of rows in a traversal
\* result, and of variables bound in one row.
MaxVec == 1
MaxRows == 1
MaxRowVars == 1

\* Largest number of candidates of a vector search (in SpecRetrieve: of
\* nodes carrying the label the vector search asks for, plus one), largest
\* top_k, length of the run of relationships that fills the traversal cap,
\* largest number of relationships after it.
MaxCand == 2
MaxTopK == 2
MaxPad == 20
MaxFree == 1
\* Vector results and traversal records of SpecOrder.
MaxFound == 3
MaxRecords == 2
\* Vector results, and records, of SpecMalformed.
MaxMixed == 2
\* Properties of the node of SpecRender.
MaxProps == 3
\* Largest number of words of a query of SpecRoute.
MaxWords == 2
\* Reasoning rounds of a query of SpecConc in which the reasoning
\* capability may request a tool.
MaxConcRounds == 1

\* Largest magnitude the arithmetic below tracks exactly; larger results
\* become the inexact value Approx.
MaxExact == 100000000

(***************************************************************************)
(* Values and texts                                                        *)
(*                                                                         *)
(* A Python value produced by eval is [t, n, d]: t is its type, n/d the    *)
(* number it denotes (floats are tracked as exact fractions: rounding      *)
(* never decides whether an evaluation succeeds or raises, only the last   *)
(* digits of a float that Python would print).                             *)
(* A runtime exception is carried as a value whose t is the exception      *)
(* class.  A text is [prefix, val]: a fixed leading string followed by the *)
(* rendering of val.                                                       *)
(***************************************************************************)
Val(t, n, d) == [t |-> t, n |-> n, d |-> d]
NoVal == Val("none", 0, 1)
IntVal(n) == Val("int", n, 1)
EmptyTuple == Val("tuple", 0, 1)
EllipsisVal == Val("ellipsis", 0, 1)
\* a non-zero number whose magnitude is not tracked
Approx == Val("approx", 1, 1)
ComplexVal == Val("complex", 1, 1)
Exc(class) == Val(class, 0, 1)

\* Subclasses of Exception that evaluation of a sanitized expression raises.
ExceptionClasses == {"SyntaxError", "ZeroDivisionError", "TypeError"}
IsErr(v) == v.t \in ExceptionClasses
IsExact(v) == v.t \in {"int", "float"}
IsNum(v) == v.t \in {"int", "float", "approx", "complex"}

Text(prefix, val) == [prefix |-> prefix, val |-> val]

Abs(x) == IF x < 0 THEN -x ELSE x

RECURSIVE Gcd(_, _)
Gcd(a, b) == IF b = 0 THEN a ELSE Gcd(b, a % b)

\* the fraction n/d (d # 0) in lowest terms with a positive denominator
Frac(t, n, d) ==
    LET g == Gcd(Abs(n), Abs(d))
        s == IF d < 0 THEN -1 ELSE 1
    IN  Val(t, s * (n \div g), s * (d \div g))

\* as Frac, or Approx when a component is too large to track
FracSat(t, n, d) ==
    IF Abs(n) > MaxExact \/ Abs(d) > MaxExact THEN Approx ELSE Frac(t, n, d)

NumType(a, b) == IF a.t = "int" /\ b.t = "int" THEN "int" ELSE "float"

\* the product a*b can be formed without exceeding MaxExact
Fits(a, b) == a = 0 \/ b = 0 \/ Abs(a) <= MaxExact \div Abs(b)

(***************************************************************************)
(* Python arithmetic on the values a sanitized expression can denote       *)
(* (the operators that eval applies at src/agent/tools.py:94).  Operands   *)
(* are evaluated left to right, so the left operand's exception wins.      *)
(***************************************************************************)
PyAdd(a, b) ==
    IF a.t = "tuple" /\ b.t = "tuple" THEN EmptyTuple
    ELSE IF ~(IsNum(a) /\ IsNum(b)) THEN Exc("TypeError")
    ELSE IF ~(IsExact(a) /\ IsExact(b)) THEN (IF a.t = "complex" \/ b.t = "complex" THEN ComplexVal ELSE Approx)
    ELSE IF ~(Fits(a.n, b.d) /\ Fits(b.n, a.d) /\ Fits(a.d, b.d)) THEN Approx
    ELSE FracSat(NumType(a, b), a.n * b.d + b.n * a.d, a.d * b.d)

PyNeg(a) ==
    IF ~IsNum(a) THEN Exc("TypeError")
    ELSE IF IsExact(a) THEN Val(a.t, -a.n, a.d) ELSE a

PyPos(a) == IF ~IsNum(a) THEN Exc("TypeError") ELSE a

PySub(a, b) ==
    IF ~(IsNum(a) /\ IsNum(b)) THEN Exc("TypeError") ELSE PyAdd(a, PyNeg(b))

PyMul(a, b) ==
    IF (a.t = "tuple" /\ b.t = "int") \/ (a.t = "int" /\ b.t = "tuple") THEN EmptyTuple
    ELSE IF ~(IsNum(a) /\ IsNum(b)) THEN Exc("TypeError")
    ELSE IF ~(IsExact(a) /\ IsExact(b)) THEN
        (IF (IsExact(a) /\ a.n = 0) \/ (IsExact(b) /\ b.n = 0)
           THEN Val("float", 0, 1)
           ELSE IF a.t = "complex" \/ b.t = "complex" THEN ComplexVal ELSE Approx)
    ELSE IF ~(Fits(a.n, b.n) /\ Fits(a.d, b.d)) THEN Approx
    ELSE FracSat(NumType(a, b), a.n * b.n, a.d * b.d)

\* true division: always a float, ZeroDivisionError on a zero divisor
PyTrueDiv(a, b) ==
    IF ~(IsNum(a) /\ IsNum(b)) THEN Exc("TypeError")
    ELSE IF IsExact(b) /\ b.n = 0 THEN Exc("ZeroDivisionError")
    ELSE IF ~(IsExact(a) /\ IsExact(b)) THEN
        (IF IsExact(a) /\ a.n = 0 THEN Val("float", 0, 1)
           ELSE IF a.t = "complex" \/ b.t = "complex" THEN ComplexVal ELSE Approx)
    ELSE IF ~(Fits(a.n, b.d) /\ Fits(a.d, b.n)) THEN Approx
    ELSE FracSat("float", a.n * b.d, a.d * b.n)

\* floor division: the floor of the quotient, int only for two ints
PyFloorDiv(a, b) ==
    IF ~(IsNum(a) /\ IsNum(b)) \/ a.t = "complex" \/ b.t = "complex" THEN Exc("TypeError")
    ELSE IF IsExact(b) /\ b.n = 0 THEN Exc("ZeroDivisionError")
    ELSE IF ~(IsExact(a) /\ IsExact(b)) THEN
        (IF IsExact(a) /\ a.n = 0 THEN Val("float", 0, 1) ELSE Approx)
    ELSE IF ~(Fits(a.n, b.d) /\ Fits(a.d, b.n)) THEN Approx
    ELSE LET q == Frac("float", a.n * b.d, a.d * b.n)
         IN  Val(NumType(a, b), q.n \div q.d, 1)

\* acc * b^e for |b| >= 2, or 0 when it exceeds MaxExact
RECURSIVE PowAcc(_, _, _)
PowAcc(acc, b, e) ==
    IF e = 0 THEN acc
    ELSE IF ~Fits(acc, b) THEN 0
    ELSE PowAcc(acc * b, b, e - 1)

\* b^e for an integer b and e >= 0, or "big" when not tracked
IntPow(b, e) ==
    IF e = 0 THEN 1
    ELSE IF b = 0 THEN 0
    ELSE IF b = 1 THEN 1
    ELSE IF b = -1 THEN (IF e % 2 = 0 THEN 1 ELSE -1)
    ELSE PowAcc(1, b, e)

\* (n/d)^e for e >= 0 as a value of type t
FracPow(t, n, d, e) ==
    LET pn == IntPow(n, e)
        pd == IntPow(d, e)
    IN  IF (pn = 0 /\ n # 0) \/ pd = 0 THEN Approx ELSE Val(t, pn, pd)

PyPow(a, b) ==
    IF ~(IsNum(a) /\ IsNum(b)) THEN Exc("TypeError")
    ELSE IF a.t = "complex" \/ b.t = "complex" THEN ComplexVal
    ELSE IF ~IsExact(b) THEN
        \* an untracked exponent: only its being non-zero is known
        (IF IsExact(a) /\ a.n = a.d THEN Val("float", 1, 1) ELSE Approx)
    ELSE IF b.n = 0 THEN Val(NumType(a, b), 1, 1)
    ELSE IF ~IsExact(a) THEN Approx
    ELSE IF b.d = 1 THEN
        \* an integral exponent
        (IF b.n > 0 THEN FracPow(NumType(a, b), a.n, a.d, b.n)
         ELSE IF a.n = 0 THEN Exc("ZeroDivisionError")
         ELSE IF a.n > 0 THEN FracPow("float", a.d, a.n, -b.n)
         ELSE FracPow("float", -a.d, -a.n, -b.n))
    ELSE
        \* a fractional exponent
        (IF a.n = 0 THEN (IF b.n > 0 THEN Val("float", 0, 1) ELSE Exc("ZeroDivisionError"))
         ELSE IF a.n < 0 THEN ComplexVal
         ELSE IF a.n = a.d THEN Val("float", 1, 1)
         ELSE Approx)

PyBinOp(op, a, b) ==
    IF IsErr(a) THEN a
    ELSE IF IsErr(b) THEN b
    ELSE CASE op = "+" -> PyAdd(a, b)
           [] op = "-" -> PySub(a, b)
           [] op = "*" -> PyMul(a, b)
           [] op = "/" -> PyTrueDiv(a, b)
           [] op = "//" -> PyFloorDiv(a, b)
           [] op = "**" -> PyPow(a, b)

PyUnaryOp(op, a) ==
    IF IsErr(a) THEN a
    ELSE IF op = "-" THEN PyNeg(a) ELSE PyPos(a)

\* calling any value a sanitized expression can denote: the callee and the
\* argument are evaluated first, then the call itself raises TypeError
PyCall(f, arg) ==
    IF IsErr(f) THEN f
    ELSE IF IsErr(arg) THEN arg
    ELSE Exc("TypeError")

(***************************************************************************)
(* Strings are sequences of one-character strings.                         *)
(***************************************************************************)
Digits == {"0", "1", "2", "3", "4", "5", "6", "7", "8", "9"}
Whitespace == {" ", "\t", "\n", "\r", "\f"}
\* the characters the pattern [^0-9+\-*/().\s] does not match
AllowedChars == Digits \cup {"+", "-", "*", "/", "(", ")", "."} \cup Whitespace

DigitVal(c) ==
    CASE c = "0" -> 0 [] c = "1" -> 1 [] c = "2" -> 2 [] c = "3" -> 3 [] c = "4" -> 4
      [] c = "5" -> 5 [] c = "6" -> 6 [] c = "7" -> 7 [] c = "8" -> 8 [] c = "9" -> 9

\* mutant: the class is written with \w, so the underscore survives
RECURSIVE Sanitize_KeepUnderscore(_)
Sanitize_KeepUnderscore(expression) ==
    IF expression = <<>> THEN <<>>
    ELSE IF Head(expression) \in AllowedChars \cup {"_"}
         THEN <<Head(expression)>> \o Sanitize_KeepUnderscore(Tail(expression))
         ELSE Sanitize_KeepUnderscore(Tail(expression))

\* mutant: a matched character is replaced by a blank instead of deleted
RECURSIVE Sanitize_Blank(_)
Sanitize_Blank(expression) ==
    IF expression = <<>> THEN <<>>
    ELSE IF Head(expression) \in AllowedChars
         THEN <<Head(expression)>> \o Sanitize_Blank(Tail(expression))
         ELSE <<" ">> \o Sanitize_Blank(Tail(expression))

\* re.sub(r'[^0-9+\-*/().\s]', '', expression): scan left to right and
\* delete every character the class matches
RECURSIVE Sanitize(_)
Sanitize(expression) ==
    IF expression = <<>> THEN <<>>
    ELSE IF Head(expression) \in AllowedChars
         THEN <<Head(expression)>> \o Sanitize(Tail(expression))
         ELSE Sanitize(Tail(expression))

(***************************************************************************)
(* eval(sanitized): Python's tokenizer and expression grammar restricted   *)
(* to the characters that survive sanitizing.                              *)
(***************************************************************************)
OpTok(op) == [k |-> "op", op |-> op, val |-> NoVal]
NumTok(v) == [k |-> "num", op |-> "", val |-> v]

\* first index >= i that does not hold a digit
RECURSIVE DigitRunEnd(_, _)
DigitRunEnd(s, i) ==
    IF i <= Len(s) /\ s[i] \in Digits THEN DigitRunEnd(s, i + 1) ELSE i

\* the number written by the digits s[i..j-1] after acc, or -1 when not tracked
RECURSIVE DigitsVal(_, _, _, _)
DigitsVal(s, i, j, acc) ==
    IF acc < 0 \/ i >= j THEN acc
    ELSE IF acc > MaxExact \div 10 THEN -1
    ELSE DigitsVal(s, i + 1, j, acc * 10 + DigitVal(s[i]))

RECURSIVE Pow10(_)
Pow10(k) == IF k = 0 THEN 1 ELSE IF k > 8 THEN 0 ELSE 10 * Pow10(k - 1)

\* F applied to the value of v, v being evaluated once
Bind(v, F(_)) == CHOOSE x \in {F(r) : r \in {v}} : TRUE

\* a number literal starting at i whose leading digit run ends before j:
\* [ok, val, pos]
LexNumberFrom(s, i, j) ==
    IF j <= Len(s) /\ s[j] = "." THEN
        \* digits "." digits*  or  "." digits+ : a float
        Bind(DigitRunEnd(s, j + 1), LAMBDA k :
            Bind(DigitsVal(s, j + 1, k, DigitsVal(s, i, j, 0)), LAMBDA n :
                [ok |-> TRUE,
                 val |-> IF n < 0 \/ Pow10(k - j - 1) = 0 THEN Approx
                         ELSE FracSat("float", n, Pow10(k - j - 1)),
                 pos |-> k]))
    ELSE IF s[i] = "0" /\ \E m \in i..(j - 1) : s[m] # "0" THEN
        \* leading zeros in a decimal integer literal
        [ok |-> FALSE, val |-> NoVal, pos |-> j]
    ELSE Bind(DigitsVal(s, i, j, 0), LAMBDA n :
            [ok |-> TRUE, val |-> IF n < 0 THEN Approx ELSE IntVal(n), pos |-> j])

LexNumber(s, i) == Bind(DigitRunEnd(s, i), LAMBDA j : LexNumberFrom(s, i, j))

At(s, i) == IF i <= Len(s) THEN s[i] ELSE ""

\* tok followed by the tokens rest
ConsTok(tok, rest) == [ok |-> rest.ok, toks |-> <<tok>> \o rest.toks]

\* the tokens of s from position i on: [ok, toks]
RECURSIVE Lex(_, _)
Lex(s, i) ==
    IF i > Len(s) THEN [ok |-> TRUE, toks |-> <<>>]
    ELSE IF s[i] \in {" ", "\t", "\f"} THEN Lex(s, i + 1)
    ELSE IF s[i] \in Digits \/ (s[i] = "." /\ At(s, i + 1) \in Digits) THEN
        Bind(LexNumber(s, i), LAMBDA num :
            IF num.ok THEN Bind(Lex(s, num.pos), LAMBDA rest : ConsTok(NumTok(num.val), rest))
            ELSE [ok |-> FALSE, toks |-> <<>>])
    ELSE IF s[i] = "." /\ At(s, i + 1) = "." /\ At(s, i + 2) = "." THEN
        Bind(Lex(s, i + 3), LAMBDA rest : ConsTok(OpTok("..."), rest))
    ELSE IF (s[i] = "*" /\ At(s, i + 1) = "*") \/ (s[i] = "/" /\ At(s, i + 1) = "/") THEN
        Bind(Lex(s, i + 2), LAMBDA rest : ConsTok(OpTok(IF s[i] = "*" THEN "**" ELSE "//"), rest))
    ELSE IF s[i] \in {".", "*", "/", "+", "-", "(", ")"} THEN
        Bind(Lex(s, i + 1), LAMBDA rest : ConsTok(OpTok(s[i]), rest))
    ELSE [ok |-> FALSE, toks |-> <<>>]

IsOp(toks, i, op) == i <= Len(toks) /\ toks[i].k = "op" /\ toks[i].op = op
Parsed(v, i) == [ok |-> TRUE, val |-> v, pos |-> i]
ParseFail == [ok |-> FALSE, val |-> NoVal, pos |-> 0]

RECURSIVE ParseSum(_, _), ParseSumRest(_, _, _), ParseTerm(_, _), ParseTermRest(_, _, _)
RECURSIVE ParseFactor(_, _), ParsePower(_, _), ParseTrailers(_, _, _), ParseAtom(_, _)

\* atom: NUMBER | '...' | '(' ')' | '(' expression ')'
ParseAtom(toks, i) ==
    IF i > Len(toks) THEN ParseFail
    ELSE IF toks[i].k = "num" THEN Parsed(toks[i].val, i + 1)
    ELSE IF IsOp(toks, i, "...") THEN Parsed(EllipsisVal, i + 1)
    ELSE IF IsOp(toks, i, "(") THEN
        (IF IsOp(toks, i + 1, ")") THEN Parsed(EmptyTuple, i + 2)
         ELSE Bind(ParseSum(toks, i + 1), LAMBDA r :
                IF r.ok /\ IsOp(toks, r.pos, ")") THEN Parsed(r.val, r.pos + 1)
                ELSE ParseFail))
    ELSE ParseFail

\* primary: atom ( '(' [ ['*' | '**'] expression ] ')' )*
\* v is the value of the primary read so far, ending before i
ParseTrailers(toks, v, i) ==
    IF ~IsOp(toks, i, "(") THEN Parsed(v, i)
    ELSE IF IsOp(toks, i + 1, ")") THEN ParseTrailers(toks, PyCall(v, NoVal), i + 2)
    ELSE Bind(ParseSum(toks, IF IsOp(toks, i + 1, "*") \/ IsOp(toks, i + 1, "**")
                             THEN i + 2 ELSE i + 1),
              LAMBDA r :
                IF r.ok /\ IsOp(toks, r.pos, ")")
                THEN ParseTrailers(toks, PyCall(v, r.val), r.pos + 1)
                ELSE ParseFail)

\* power: primary ['**' factor]
ParsePower(toks, i) ==
    Bind(ParseAtom(toks, i), LAMBDA a :
        IF ~a.ok THEN ParseFail
        ELSE Bind(ParseTrailers(toks, a.val, a.pos), LAMBDA p :
            IF p.ok /\ IsOp(toks, p.pos, "**") THEN
                Bind(ParseFactor(toks, p.pos + 1), LAMBDA f :
                    IF f.ok THEN Parsed(PyBinOp("**", p.val, f.val), f.pos) ELSE ParseFail)
            ELSE p))

\* factor: ('+' | '-') factor | power
ParseFactor(toks, i) ==
    IF IsOp(toks, i, "+") \/ IsOp(toks, i, "-") THEN
        Bind(ParseFactor(toks, i + 1), LAMBDA f :
            IF f.ok THEN Parsed(PyUnaryOp(toks[i].op, f.val), f.pos) ELSE ParseFail)
    ELSE ParsePower(toks, i)

\* term: factor (('*' | '/' | '//') factor)*
\* left is the value of the term read so far, ending before i
ParseTermRest(toks, left, i) ==
    IF IsOp(toks, i, "*") \/ IsOp(toks, i, "/") \/ IsOp(toks, i, "//") THEN
        Bind(ParseFactor(toks, i + 1), LAMBDA f :
            IF f.ok THEN ParseTermRest(toks, PyBinOp(toks[i].op, left, f.val), f.pos)
            ELSE ParseFail)
    ELSE Parsed(left, i)

ParseTerm(toks, i) ==
    Bind(ParseFactor(toks, i), LAMBDA f :
        IF f.ok THEN ParseTermRest(toks, f.val, f.pos) ELSE ParseFail)

\* sum: term (('+' | '-') term)*
ParseSumRest(toks, left, i) ==
    IF IsOp(toks, i, "+") \/ IsOp(toks, i, "-") THEN
        Bind(ParseTerm(toks, i + 1), LAMBDA t :
            IF t.ok THEN ParseSumRest(toks, PyBinOp(toks[i].op, left, t.val), t.pos)
            ELSE ParseFail)
    ELSE Parsed(left, i)

ParseSum(toks, i) ==
    Bind(ParseTerm(toks, i), LAMBDA t :
        IF t.ok THEN ParseSumRest(toks, t.val, t.pos) ELSE ParseFail)

\* eval(source): the value, or the exception raised (as an exception value).
\* The source is compiled before anything is evaluated, so a syntax error
\* anywhere wins over a runtime error.
PyEval(source) ==
    Bind(Lex(source, 1), LAMBDA lx :
        IF ~lx.ok \/ lx.toks = <<>> THEN Exc("SyntaxError")
        ELSE Bind(ParseSum(lx.toks, 1), LAMBDA r :
                IF r.ok /\ r.pos = Len(lx.toks) + 1 THEN r.val ELSE Exc("SyntaxError")))

(***************************************************************************)
(* The tools (src/agent/tools.py).  A _run either returns a text or lets   *)
(* an exception escape: [raised, text, evaluated].  "evaluated" is the     *)
(* string handed to eval (the local variable sanitized), <<>> elsewhere.   *)
(***************************************************************************)
ToolNames == {"graph_query", "calculator", "web_search"}

Returned(text) == [raised |-> FALSE, text |-> text, evaluated |-> <<>>]
Raised(class) == [raised |-> TRUE, text |-> Text("", Exc(class)), evaluated |-> <<>>]

\* try: body  except Exception as e: return f"{prefix}{str(e)}"
TryExcept(body, prefix) ==
    Bind(body, LAMBDA b :
        IF b.raised
        THEN [raised |-> FALSE, text |-> Text(prefix, b.text.val), evaluated |-> b.evaluated]
        ELSE b)

\* The body of GraphQueryTool._run.  inner is what the retrieval pipeline
\* (and json.dumps for the traversal-only branch) does: "ok" or "raise".
GraphQueryBody(use_vector_search, inner) ==
    IF inner = "raise" THEN Raised("Exception")
    ELSE IF use_vector_search
         THEN Returned(Text("Graph Context:\n", Val("context", 0, 1)))
         ELSE Returned(Text("Graph Traversal Results: ", Val("records", 0, 1)))

\* mutant: no try/except around the body
GraphQueryRun_NoTry(use_vector_search, inner) == GraphQueryBody(use_vector_search, inner)

GraphQueryRun(use_vector_search, inner) ==
    TryExcept(GraphQueryBody(use_vector_search, inner), "Error querying graph: ")

\* The body of CalculatorTool._run: sanitize, eval, format.
CalculatorBody(expression) ==
    Bind(Sanitize(expression), LAMBDA sanitized :
        Bind(PyEval(sanitized), LAMBDA result :
            IF IsErr(result)
            THEN [raised |-> TRUE, text |-> Text("", result), evaluated |-> sanitized]
            ELSE [raised |-> FALSE, text |-> Text("Result: ", result), evaluated |-> sanitized]))

\* mutant: only SyntaxError is caught
CalculatorRun_SyntaxOnly(expression) ==
    Bind(CalculatorBody(expression), LAMBDA body :
        IF body.raised /\ body.text.val.t # "SyntaxError" THEN body
        ELSE TryExcept(body, "Error calculating: "))

CalculatorRun(expression) ==
    TryExcept(CalculatorBody(expression), "Error calculating: ")

\* WebSearchTool._run: the fixed placeholder, nothing that can fail
WebSearchRun(query) ==
    Returned(Text("[Mock Web Search] Results for ", Val("placeholder", 0, 1)))

(***************************************************************************)
(* SpecTools: one invocation of a tool's _run with arguments drawn from    *)
(* bounded sets.                                                           *)
(***************************************************************************)
\* characters of the exhaustively enumerated expressions: two digits, every
\* operator character, a blank, and two characters the sanitizer deletes
ExprAlphabet == {"0", "2", "+", "-", "*", "/", "(", ")", ".", " ", "a", "_"}

ExprTwoPlusTwo == <<"2", " ", "+", " ", "2">>
ExprTenByZero == <<"1", "0", " ", "/", " ", "0">>
ExprScenario4 == <<"C", "a", "l", "c", "u", "l", "a", "t", "e", " ", "1", "2", "5", " ", "*", " ", "4", "7", " ", "+", " ", "8", "9", "2">>
ExprInjection == <<"_", "_", "i", "m", "p", "o", "r", "t", "_", "_", "(", "'", "o", "s", "'", ")", ".", "s", "y", "s", "t", "e", "m", "(", "'", "l", "s", "'", ")">>
ExprDangling == <<"2", " ", "+">>
ExprExamples == {ExprTwoPlusTwo, ExprTenByZero, ExprScenario4, ExprInjection, ExprDangling}

ExprInputs ==
    UNION {[1..n -> ExprAlphabet] : n \in 0..MaxExprLen} \cup ExprExamples

ToolCall(name, expression, use_vector_search, inner) ==
    [name |-> name, expression |-> expression,
     use_vector_search |-> use_vector_search, inner |-> inner]

ToolInvocations ==
    {ToolCall("graph_query", <<>>, u, i) : u \in BOOLEAN, i \in {"ok", "raise"}}
    \cup {ToolCall("calculator", e, TRUE, "ok") : e \in ExprInputs}
    \cup {ToolCall("web_search", <<>>, TRUE, "ok")}

NoResult == [raised |-> FALSE, text |-> Text("none", NoVal), evaluated |-> <<>>]
NoOutput == [response |-> Text("none", NoVal), tools_used |-> <<>>, steps |-> <<>>, message_count |-> 0]

LoopIdle ==
    /\ pc = "idle"
    /\ messages = <<>>
    /\ steps = <<>>
    /\ tools_used = <<>>
    /\ prompt = <<>>
    /\ supersteps = 0
    /\ invoked = <<>>
    /\ output = NoOutput

ToolsIdle ==
    /\ call = ToolCall("web_search", <<>>, TRUE, "ok")
    /\ tool_result = NoResult

\* hybrid_retrieval has not run
NoContext == [done |-> FALSE, raised |-> FALSE, nodes |-> <<>>]

FuseIdle ==
    /\ vector_results = <<>>
    /\ traversal_results = <<>>
    /\ context_nodes = NoContext

\* what graph queries and embedding requests meet when nothing is set up:
\* an empty graph, an embedding model that works
NoRetrieval == [done |-> FALSE]
NoRuns == [pc |-> <<>>, state |-> <<>>, output |-> <<>>]
EmptyStore == [fails |-> {}, nodes |-> <<>>, rels |-> <<>>]
EnvIdle ==
    /\ store = EmptyStore
    /\ embedder = [ok |-> TRUE, qvec |-> <<>>]
    /\ retrieval = NoRetrieval
    /\ runs = NoRuns

InitTools ==
    /\ LoopIdle
    /\ FuseIdle
    /\ EnvIdle
    /\ call \in ToolInvocations
    /\ tool_result = NoResult

RunGraphQuery ==
    /\ call.name = "graph_query"
    /\ tool_result = NoResult
    /\ tool_result' = GraphQueryRun(call.use_vector_search, call.inner)
    /\ UNCHANGED <<call, loopVars, fuseVars, envVars>>

RunCalculator ==
    /\ call.name = "calculator"
    /\ tool_result = NoResult
    /\ tool_result' = CalculatorRun(call.expression)
    /\ UNCHANGED <<call, loopVars, fuseVars, envVars>>

RunWebSearch ==
    /\ call.name = "web_search"
    /\ tool_result = NoResult
    /\ tool_result' = WebSearchRun(call.expression)
    /\ UNCHANGED <<call, loopVars, fuseVars, envVars>>

NextTools == RunGraphQuery \/ RunCalculator \/ RunWebSearch

SpecTools == InitTools /\ [][NextTools]_vars

(***************************************************************************)
(* The orchestration loop (src/agent/agent.py).                            *)
(***************************************************************************)
\* Node executions after which graph.invoke gives up: query passes no
\* config, so the graph runtime's default recursion limit applies.
RecursionLimit == 25

Msg(type, content, tool_calls, name) ==
    [type |-> type, content |-> content, tool_calls |-> tool_calls, name |-> name]
HumanMessage(q) == Msg("human", Text(q, NoVal), <<>>, "")
SystemMessage == Msg("system", Text("You are an intelligent AI assistant", NoVal), <<>>, "")
AIMessage(content, tool_calls) == Msg("ai", Text(content, NoVal), tool_calls, "")
ToolMessage(text, name) == Msg("tool", text, <<>>, name)

\* a tool call requested by the reasoning capability
TC(name, expression, use_vector_search) ==
    [name |-> name, expression |-> expression, use_vector_search |-> use_vector_search]

UserQueries == {"user query"}
\* calculator arguments the reasoning capability may send
LoopExprs == {ExprTwoPlusTwo, ExprTenByZero, <<>>}
RichCalls ==
    {TC("graph_query", <<>>, TRUE)}
    \cup {TC("calculator", e, TRUE) : e \in LoopExprs}
    \cup {TC("web_search", <<>>, TRUE)}
\* the calls of a response that requests several tools
OrderCalls == {TC("calculator", ExprTwoPlusTwo, TRUE), TC("web_search", <<>>, TRUE)}
\* n calls, the two tools in turn, starting with the given one
SeveralCalls(n, first) ==
    [i \in 1..n |-> IF i % 2 = 1 THEN first ELSE CHOOSE c \in OrderCalls : c # first]
TailCall == TC("web_search", <<>>, TRUE)

\* what llm_with_tools.invoke may return in the given reasoning round
LLMResponses(round) ==
    IF round <= MaxRichRounds
    THEN {AIMessage("answer", calls) :
             calls \in {<<>>} \cup {<<c>> : c \in RichCalls}
                       \cup {SeveralCalls(n, c) : n \in 2..MaxCalls, c \in OrderCalls}}
    ELSE {AIMessage("answer", <<>>), AIMessage("answer", <<TailCall>>)}

\* mutant: the names are collected last call first
ToolNamesOf_Reversed(tool_calls) ==
    [i \in 1..Len(tool_calls) |-> tool_calls[Len(tool_calls) + 1 - i].name]

\* [tc.get("name", "") for tc in tool_calls]
ToolNamesOf(tool_calls) == [i \in 1..Len(tool_calls) |-> tool_calls[i].name]

SelectionStep(tool_names) ==
    [step |-> "tool_selection", tools |-> tool_names,
     reasoning |-> "Agent selected tools based on query analysis"]

\* mutant: the tool node is chosen whatever the last message holds
ShouldContinue_Always(msgs) == "continue"

\* _should_continue on the state the agent node has just produced
ShouldContinue(msgs) ==
    LET last_message == msgs[Len(msgs)]
    IN  IF last_message.tool_calls # <<>> THEN "continue" ELSE "end"

\* mutant: the mapping has no entry for "end", so the run dies at the edge
\* and query never builds a result
AgentEdge_EndUnmapped(msgs) == IF ShouldContinue(msgs) = "continue" THEN "tools" ELSE "unmapped"

\* mutant: the two targets of the mapping are exchanged
AgentEdge_Swapped(msgs) == IF ShouldContinue(msgs) = "continue" THEN "end" ELSE "tools"

\* the conditional edge out of "agent": {"continue": "tools", "end": END}
AgentEdge(msgs) == IF ShouldContinue(msgs) = "continue" THEN "tools" ELSE "end"

\* mutant: the tool node is wired to END
ToolsEdge_ToEnd == "end"

\* the edge out of "tools"
ToolsEdge == "agent"

\* mutant: the channel has no reducer, what a node returns replaces it
AddMessages_Replace(left, right) == right

\* messages: Annotated[Sequence[BaseMessage], operator.add]: what a node
\* returns under "messages" is added to the end of the transcript
AddMessages(left, right) == left \o right

\* query, lines 116-123: seed the state and enter the graph at "agent"
Submit(user_query) ==
    /\ pc = "idle"
    /\ messages' = <<HumanMessage(user_query)>>
    /\ steps' = <<>>
    /\ tools_used' = <<>>
    /\ supersteps' = 0
    /\ pc' = "agent"
    /\ UNCHANGED <<prompt, invoked, output, toolVars, fuseVars, envVars>>

\* mutant: no system message is put in front
WithSystem_Never(msgs) == msgs

\* the message list _agent_node hands to the reasoning capability
WithSystem(msgs) ==
    IF msgs = <<>> \/ msgs[1].type # "system" THEN <<SystemMessage>> \o msgs ELSE msgs

\* _agent_node followed by the conditional edge
AgentNode(response) ==
    /\ pc = "agent"
    /\ supersteps < RecursionLimit
    /\ prompt' = WithSystem(messages)
    /\ IF response.tool_calls # <<>>
       THEN /\ tools_used' = tools_used \o ToolNamesOf(response.tool_calls)
            /\ steps' = Append(steps, SelectionStep(ToolNamesOf(response.tool_calls)))
       ELSE UNCHANGED <<tools_used, steps>>
    /\ messages' = AddMessages(messages, <<response>>)
    /\ pc' = AgentEdge(messages')
    /\ supersteps' = supersteps + 1
    /\ UNCHANGED <<invoked, output, toolVars, fuseVars, envVars>>

RunTool(tc, inner) ==
    CASE tc.name = "graph_query" -> GraphQueryRun(tc.use_vector_search, inner)
      [] tc.name = "calculator" -> CalculatorRun(tc.expression)
      [] tc.name = "web_search" -> WebSearchRun(tc.expression)

\* ToolNode turns what the tool returned into a tool message; an exception
\* escaping the tool is reported by ToolNode's own error text
ToolResultMessage(tc, inner) ==
    Bind(RunTool(tc, inner), LAMBDA r :
        IF r.raised THEN ToolMessage(Text("Error: ", r.text.val), tc.name)
        ELSE ToolMessage(r.text, tc.name))

\* the tool calls of the last message
PendingCalls(msgs) == IF msgs = <<>> THEN <<>> ELSE msgs[Len(msgs)].tool_calls

\* what the pipeline behind each pending graph_query call may do
InnerOutcomes(pending) ==
    {f \in [1..Len(pending) -> {"ok", "raise"}] :
        \A i \in 1..Len(pending) : pending[i].name # "graph_query" => f[i] = "ok"}

\* mutant: the calls are run last first
ToolNodeResults_Reversed(pending) ==
    {[i \in 1..Len(pending) |->
         ToolResultMessage(pending[Len(pending) + 1 - i], inners[Len(pending) + 1 - i])] :
        inners \in InnerOutcomes(pending)}

\* the tool messages ToolNode may produce for the pending calls: one per
\* call, in the order the calls are listed
ToolNodeResults(pending) ==
    {[i \in 1..Len(pending) |-> ToolResultMessage(pending[i], inners[i])] :
        inners \in InnerOutcomes(pending)}

\* ToolNode hands the pending calls to the executor of the graph runtime,
\* which runs them on a pool of threads: the runs overlap and end in any
\* order, while the results are collected in the order of the calls
CompletionOrders(n) ==
    {f \in [1..n -> 1..n] : \A i, j \in 1..n : f[i] = f[j] => i = j}

\* ToolNode(self.tools) followed by the edge back to "agent"
ToolsNode ==
    /\ pc = "tools"
    /\ supersteps < RecursionLimit
    /\ \E results \in ToolNodeResults(PendingCalls(messages)) :
          messages' = AddMessages(messages, results)
    /\ \E order \in CompletionOrders(Len(PendingCalls(messages))) :
          invoked' = invoked \o [i \in 1..Len(order) |-> PendingCalls(messages)[order[i]].name]
    /\ pc' = ToolsEdge
    /\ supersteps' = supersteps + 1
    /\ UNCHANGED <<steps, tools_used, prompt, output, toolVars, fuseVars, envVars>>

\* graph.invoke raises once the recursion limit is used up with a node
\* still due; the exception leaves query, which returns nothing
RecursionAbort ==
    /\ pc \in {"agent", "tools"}
    /\ supersteps >= RecursionLimit
    /\ pc' = "aborted"
    /\ UNCHANGED <<messages, steps, tools_used, prompt, supersteps, invoked, output, toolVars, fuseVars, envVars>>

SetOf(seq) == {seq[i] : i \in 1..Len(seq)}

\* the possible results of list(S): every element once, in some order
ListsOf(S) ==
    {f \in [1..Cardinality(S) -> S] : \A i, j \in 1..Cardinality(S) : f[i] = f[j] => i = j}

\* mutant: the running collection is returned as it is
DedupTools_NoDedup(used) == {used}

\* list(set(final_state["tools_used"]))
DedupTools(used) == ListsOf(SetOf(used))

\* mutant: the message before the last one is taken
FinalResponse_Penultimate(msgs) == msgs[Len(msgs) - 1].content

\* final_state["messages"][-1].content
FinalResponse(msgs) == msgs[Len(msgs)].content

\* mutant: the system message is counted as if it were stored
MessageCount_WithSystem(msgs) == Len(msgs) + 1

MessageCount(msgs) == Len(msgs)

\* query, lines 125-134: build the returned dict from the final state
Return ==
    /\ pc = "end"
    /\ \E deduped \in DedupTools(tools_used) :
         output' = [response |-> FinalResponse(messages),
                    tools_used |-> deduped,
                    steps |-> steps,
                    message_count |-> MessageCount(messages)]
    /\ pc' = "done"
    /\ UNCHANGED <<messages, steps, tools_used, prompt, supersteps, invoked, toolVars, fuseVars, envVars>>

Init ==
    /\ LoopIdle
    /\ ToolsIdle
    /\ FuseIdle
    /\ EnvIdle

Round == supersteps \div 2 + 1

Reasoning == \E response \in LLMResponses(Round) : AgentNode(response)

Next ==
    \/ \E q \in UserQueries : Submit(q)
    \/ Reasoning
    \/ ToolsNode
    \/ RecursionAbort
    \/ Return

Spec == Init /\ [][Next]_vars

\* Scheduling: a submitted query is run synchronously, so the node that is
\* due is executed (the reasoning capability and the tools return), and
\* query builds its result once the graph has ended.
FairSpec ==
    /\ Spec
    /\ WF_vars(Reasoning)
    /\ WF_vars(ToolsNode)
    /\ WF_vars(RecursionAbort)
    /\ WF_vars(Return)

(***************************************************************************)
(* Fusion (src/agent/graphrag.py, hybrid_retrieval lines 141-180).         *)
(*                                                                         *)
(* A property value is PyNone (the key is missing or holds None), the      *)
(* empty string, or a non-empty text.  A bound value is a node (a mapping  *)
(* with id and name) or something that is not a mapping.  Similarities     *)
(* are in hundredths.                                                      *)
(***************************************************************************)
PyNone == "<None>"
Truthy(v) == v # PyNone /\ v # ""

IdValues == {PyNone, "", "k1"}
NameValues == {PyNone, "k1", "k2"}
NodeValue(id, name) == [kind |-> "node", id |-> id, name |-> name]
NotAMapping == [kind |-> "other", id |-> PyNone, name |-> PyNone]
BoundValues == {NodeValue(i, n) : i \in IdValues, n \in NameValues} \cup {NotAMapping}

\* the default similarity of a traversal node, 0.5
TraversalDefault == 50

\* vector_search returns its results sorted by descending similarity
SimilarityAt(i) == 95 - 5 * i

VectorInputs ==
    UNION {{[i \in 1..n |-> [n |-> f[i], similarity |-> SimilarityAt(i)]] : f \in [1..n -> BoundValues]}
           : n \in 0..MaxVec}

TraversalRows == UNION {[1..w -> BoundValues] : w \in 1..MaxRowVars}
TraversalInputs == UNION {[1..r -> TraversalRows] : r \in 0..MaxRows}

\* node.get("id") or node.get("name")
NodeKey(node) == IF Truthy(node.id) THEN node.id ELSE node.name

Entry(key, node, similarity, source) ==
    [key |-> key, node |-> node, similarity |-> similarity, source |-> source]

KeyIn(ctx, key) == \E i \in 1..Len(ctx) : ctx[i].key = key

\* mutant: an assignment moves the key to the end
DictSet_MoveToEnd(ctx, entry) ==
    Append(SelectSeq(ctx, LAMBDA e : e.key # entry.key), entry)

\* context_nodes[key] = entry: replace in place, or append a new key
DictSet(ctx, entry) ==
    IF KeyIn(ctx, entry.key)
    THEN [i \in 1..Len(ctx) |-> IF ctx[i].key = entry.key THEN entry ELSE ctx[i]]
    ELSE Append(ctx, entry)

\* body of the loop over vector_results, lines 144-160
FuseVectorResult(ctx, result) ==
    IF result.n.kind # "node" THEN ctx
    ELSE LET node_id == NodeKey(result.n)
         IN  IF Truthy(node_id)
             THEN DictSet(ctx, Entry(node_id, result.n, result.similarity, "vector"))
             ELSE ctx

\* mutant: the membership test is missing, a traversal node overwrites
FuseTraversalValue_Overwrite(ctx, value) ==
    IF value.kind # "node" THEN ctx
    ELSE IF value.id # PyNone \/ value.name # PyNone THEN
        LET node_id == NodeKey(value)
        IN  IF Truthy(node_id)
            THEN DictSet(ctx, Entry(node_id, value, TraversalDefault, "traversal"))
            ELSE ctx
    ELSE ctx

\* body of the inner loop over result.items(), lines 164-180
FuseTraversalValue(ctx, value) ==
    IF value.kind # "node" THEN ctx
    ELSE IF value.id # PyNone \/ value.name # PyNone THEN
        LET node_id == NodeKey(value)
        IN  IF Truthy(node_id) /\ ~KeyIn(ctx, node_id)
            THEN DictSet(ctx, Entry(node_id, value, TraversalDefault, "traversal"))
            ELSE ctx
    ELSE ctx

RECURSIVE FuseVector(_, _)
FuseVector(ctx, results) ==
    IF results = <<>> THEN ctx
    ELSE FuseVector(FuseVectorResult(ctx, Head(results)), Tail(results))

RECURSIVE FuseRow(_, _)
FuseRow(ctx, row) ==
    IF row = <<>> THEN ctx
    ELSE FuseRow(FuseTraversalValue(ctx, Head(row)), Tail(row))

RECURSIVE FuseTraversal(_, _)
FuseTraversal(ctx, rows) ==
    IF rows = <<>> THEN ctx
    ELSE Bind(FuseRow(ctx, Head(rows)), LAMBDA next : FuseTraversal(next, Tail(rows)))

\* "Combine and deduplicate": the values of context_nodes in insertion order
Fuse(vectors, rows) == FuseTraversal(FuseVector(<<>>, vectors), rows)

\* a key that is a list (a list-valued id or name property) is truthy when
\* it is not empty, and a dict accepts no list as a key: both
\* context_nodes[node_id] = ... and node_id not in context_nodes raise
\* TypeError, which nothing in hybrid_retrieval catches
UnhashableId == "<list>"
Unhashable(key) == key = UnhashableId
VectorRaises(result) == result.n.kind = "node" /\ Unhashable(NodeKey(result.n))
TraversalRaises(value) ==
    /\ value.kind = "node"
    /\ value.id # PyNone \/ value.name # PyNone
    /\ Unhashable(NodeKey(value))
FuseRaises(vectors, rows) ==
    \/ \E i \in 1..Len(vectors) : VectorRaises(vectors[i])
    \/ \E r \in 1..Len(rows) : \E c \in 1..Len(rows[r]) : TraversalRaises(rows[r][c])

InitFuse ==
    /\ LoopIdle
    /\ ToolsIdle
    /\ EnvIdle
    /\ vector_results \in VectorInputs
    /\ traversal_results \in TraversalInputs
    /\ context_nodes = NoContext

HybridRetrieval ==
    /\ ~context_nodes.done
    /\ context_nodes' =
         IF FuseRaises(vector_results, traversal_results)
         THEN [done |-> TRUE, raised |-> TRUE, nodes |-> <<>>]
         ELSE [done |-> TRUE, raised |-> FALSE, nodes |-> Fuse(vector_results, traversal_results)]
    /\ UNCHANGED <<vector_results, traversal_results, loopVars, toolVars, envVars>>

NextFuse == HybridRetrieval

SpecFuse == InitFuse /\ [][NextFuse]_vars

(***************************************************************************)
(* SpecOrder: hybrid_retrieval over longer results of a few nodes: vector  *)
(* results that may share a key, records that bind two values each.        *)
(***************************************************************************)
Ranked(found) == [i \in 1..Len(found) |-> [n |-> found[i], similarity |-> SimilarityAt(i)]]
FoundNodes == {NodeValue("k1", "k2"), NodeValue(PyNone, "k2"), NodeValue("k1", "k1")}
RowNodes == {NodeValue("", "k2"), NodeValue("k3", "k1"), NodeValue("k4", PyNone)}
LongVectorInputs == {Ranked(found) : found \in UNION {[1..n -> FoundNodes] : n \in 0..MaxFound}}
LongTraversalInputs == UNION {[1..r -> [1..2 -> RowNodes]] : r \in 0..MaxRecords}

InitOrder ==
    /\ LoopIdle
    /\ ToolsIdle
    /\ EnvIdle
    /\ vector_results \in LongVectorInputs
    /\ traversal_results \in LongTraversalInputs
    /\ context_nodes = NoContext

SpecOrder == InitOrder /\ [][NextFuse]_vars

(***************************************************************************)
(* SpecMalformed: hybrid_retrieval over results with malformed entries: a  *)
(* value that is no mapping, a node without id and name, with a null or    *)
(* an empty key, with a list for its id.                                   *)
(***************************************************************************)
MalformedValues ==
    {NotAMapping, NodeValue(PyNone, PyNone), NodeValue("", PyNone), NodeValue("", ""),
     NodeValue(UnhashableId, "k2")}
MixedValues == MalformedValues \cup {NodeValue("k1", "k2"), NodeValue(PyNone, "k2")}
MixedVectorInputs == {Ranked(found) : found \in UNION {[1..n -> MixedValues] : n \in 0..MaxMixed}}
MixedTraversalInputs == UNION {[1..r -> [1..1 -> MixedValues]] : r \in 0..MaxMixed}

InitMalformed ==
    /\ LoopIdle
    /\ ToolsIdle
    /\ EnvIdle
    /\ vector_results \in MixedVectorInputs
    /\ traversal_results \in MixedTraversalInputs
    /\ context_nodes = NoContext

SpecMalformed == InitMalformed /\ [][NextFuse]_vars

(***************************************************************************)
(* Query routing (src/agent/graphrag.py, graph_traversal lines 76-131).    *)
(* A query text is a sequence of characters.                               *)
(***************************************************************************)
UpperCase ==
    <<"A", "B", "C", "D", "E", "F", "G", "H", "I", "J", "K", "L", "M", "N",
      "O", "P", "Q", "R", "S", "T", "U", "V", "W", "X", "Y", "Z", "É">>
LowerCase ==
    <<"a", "b", "c", "d", "e", "f", "g", "h", "i", "j", "k", "l", "m", "n",
      "o", "p", "q", "r", "s", "t", "u", "v", "w", "x", "y", "z", "é">>

\* str.lower(), character by character
LowerChar(c) ==
    IF \E i \in 1..Len(UpperCase) : UpperCase[i] = c
    THEN LowerCase[CHOOSE i \in 1..Len(UpperCase) : UpperCase[i] = c]
    ELSE c
Lower(s) == [i \in 1..Len(s) |-> LowerChar(s[i])]

\* sub in s
Contains(s, sub) ==
    \E i \in 0..(Len(s) - Len(sub)) : SubSeq(s, i + 1, i + Len(sub)) = sub

\* the keywords of each branch, in the order of the if / elif chain
Patterns ==
    << [pattern |-> "ActorRole",
        keywords |-> << <<"a", "c", "t">>, <<"a", "c", "t", "o", "r">>,
                        <<"p", "l", "a", "y", "e", "d">>, <<"j", "o", "u", "é">> >>],
       [pattern |-> "DirectorRole",
        keywords |-> << <<"d", "i", "r", "e", "c", "t">>,
                        <<"d", "i", "r", "e", "c", "t", "o", "r">>,
                        <<"r", "é", "a", "l", "i", "s", "é">> >>],
       [pattern |-> "GenreMembership",
        keywords |-> << <<"g", "e", "n", "r", "e">>, <<"t", "y", "p", "e">> >>],
       [pattern |-> "FilmOverview",
        keywords |-> << <<"f", "i", "l", "m">>, <<"m", "o", "v", "i", "e">> >>],
       [pattern |-> "SeriesOverview",
        keywords |-> << <<"s", "e", "r", "i", "e">>, <<"s", "e", "r", "i", "e", "s">>,
                        <<"s", "h", "o", "w">> >>],
       [pattern |-> "Collaboration",
        keywords |-> << <<"w", "o", "r", "k", "e", "d">>,
                        <<"t", "o", "g", "e", "t", "h", "e", "r">>,
                        <<"c", "o", "l", "l", "a", "b", "o", "r">> >>] >>

\* mutant: a keyword matches only a whole word of the query
PatternMatches_WholeWord(query_lower, p) ==
    \E k \in 1..Len(Patterns[p].keywords) :
        Contains(<<" ">> \o query_lower \o <<" ">>, <<" ">> \o Patterns[p].keywords[k] \o <<" ">>)

PatternMatches(query_lower, p) ==
    \E k \in 1..Len(Patterns[p].keywords) : Contains(query_lower, Patterns[p].keywords[k])

\* mutant: the query is not lower-cased
Classify_CaseSensitive(query) ==
    LET hits == {p \in 1..Len(Patterns) : PatternMatches(query, p)}
    IN  IF hits = {} THEN "GenericSubgraph"
        ELSE Patterns[CHOOSE p \in hits : \A o \in hits : p <= o].pattern

\* the branch graph_traversal takes: the first whose keyword occurs in
\* query.lower(), the generic query when none does
Classify(query) ==
    LET query_lower == Lower(query)
        hits == {p \in 1..Len(Patterns) : PatternMatches(query_lower, p)}
    IN  IF hits = {} THEN "GenericSubgraph"
        ELSE Patterns[CHOOSE p \in hits : \A o \in hits : p <= o].pattern

(***************************************************************************)
(* The graph store (src/graph_db/client.py) and the Cypher templates.      *)
(*                                                                         *)
(* A node is [kind, id, name, labels, items]: items is its property        *)
(* mapping as an ordered sequence of [k, v] (a property that is null is    *)
(* absent), id and name repeat the two properties the fusion reads, PyNone *)
(* when absent.  A property value is [t, v] with t its type.  The store    *)
(* holds its nodes and relationships [type, src, dst] (indices of nodes)   *)
(* in the order in which it answers a MATCH; fails names the execute_query *)
(* calls in which session.run raises.                                      *)
(***************************************************************************)
Str(s) == [t |-> "str", v |-> s]
Num(n) == [t |-> "int", v |-> n]
Vec(xs) == [t |-> "list", v |-> xs]
Bool(b) == [t |-> "bool", v |-> b]
\* a property whose value is None (a dict node; the store keeps no null)
NoneProp == [t |-> "none", v |-> PyNone]

Item(k, v) == [k |-> k, v |-> v]
HasProp(items, k) == \E i \in 1..Len(items) : items[i].k = k
PropOf(items, k) == items[CHOOSE i \in 1..Len(items) : items[i].k = k].v
\* node.get(k) for the text properties id and name
TextProp(items, k) == IF HasProp(items, k) THEN PropOf(items, k).v ELSE PyNone

GraphNode(labels, items) ==
    [kind |-> "node", id |-> TextProp(items, "id"), name |-> TextProp(items, "name"),
     labels |-> labels, items |-> items]
\* a null binding (OPTIONAL MATCH without a match)
NullValue == [kind |-> "other", id |-> PyNone, name |-> PyNone]
\* a neo4j Path: no mapping, so neither branch of the fusion reads it
PathValue(nodes) == [kind |-> "path", id |-> PyNone, name |-> PyNone, nodes |-> nodes]

Rel(type, src, dst) == [type |-> type, src |-> src, dst |-> dst]

\* seq[:k]
Take(seq, k) ==
    IF k >= 0 THEN SubSeq(seq, 1, IF k < Len(seq) THEN k ELSE Len(seq))
    ELSE SubSeq(seq, 1, IF Len(seq) + k > 0 THEN Len(seq) + k ELSE 0)

RECURSIVE Flatten(_)
Flatten(seqs) ==
    IF seqs = <<>> THEN <<>>
    ELSE IF Len(seqs) = 1 THEN seqs[1]
    ELSE Flatten(SubSeq(seqs, 1, Len(seqs) \div 2))
         \o Flatten(SubSeq(seqs, (Len(seqs) \div 2) + 1, Len(seqs)))

\* LIMIT 20 of every traversal template, LIMIT 200 of the vector query
TraversalCap == 20
CandidateCap == 200

\* the characters of the node names that occur, for CONTAINS
Spelling(name) ==
    CASE name = "Leonardo DiCaprio" ->
           <<"L", "e", "o", "n", "a", "r", "d", "o", " ", "D", "i", "C", "a", "p", "r", "i", "o">>
      [] name = "Tom Hardy" -> <<"T", "o", "m", " ", "H", "a", "r", "d", "y">>
      [] name = "Inception" -> <<"I", "n", "c", "e", "p", "t", "i", "o", "n">>
      [] name = "Leo" -> <<"L", "e", "o">>
      [] OTHER -> <<>>

\* (n:label); the empty label asks for none
HasLabel(node, label) == label = "" \/ label \in node.labels

\* MATCH (x:src_label)-[:type]->(y:dst_label) RETURN x, y
MatchRel(st, type, src_label, dst_label) ==
    LET sel == SelectSeq(st.rels, LAMBDA r :
                   /\ r.type = type
                   /\ HasLabel(st.nodes[r.src], src_label)
                   /\ HasLabel(st.nodes[r.dst], dst_label))
    IN  [i \in 1..Len(sel) |-> <<st.nodes[sel[i].src], st.nodes[sel[i].dst]>>]

\* the (x:label) with a relationship of the type to node f, in store order
Partners(st, f, type, label) ==
    LET sel == SelectSeq(st.rels, LAMBDA r :
                   r.type = type /\ r.dst = f /\ HasLabel(st.nodes[r.src], label))
    IN  [i \in 1..Len(sel) |-> st.nodes[sel[i].src]]

\* OPTIONAL MATCH binds null when nothing matches
OrNull(seq) == IF seq = <<>> THEN <<NullValue>> ELSE seq

\* MATCH (f:label) OPTIONAL MATCH (a:Actor)-[:JOUE_DANS]->(f)
\* OPTIONAL MATCH (d:Director)-[:REALISE]->(f) RETURN f, a, d
MatchOverview(st, label) ==
    LET idx == SelectSeq([i \in 1..Len(st.nodes) |-> i],
                         LAMBDA i : HasLabel(st.nodes[i], label))
        RowsOf(f) ==
            LET as == OrNull(Partners(st, f, "JOUE_DANS", "Actor"))
                ds == OrNull(Partners(st, f, "REALISE", "Director"))
            IN  [k \in 1..(Len(as) * Len(ds)) |->
                    <<st.nodes[f], as[((k - 1) \div Len(ds)) + 1], ds[((k - 1) % Len(ds)) + 1]>>]
    IN  Flatten([j \in 1..Len(idx) |-> RowsOf(idx[j])])

\* the paths of one or two relationships, taken in either direction, as
\* sequences of node indices
PathsOfOne(st) ==
    Flatten([i \in 1..Len(st.rels) |->
        << <<st.rels[i].src, st.rels[i].dst>>, <<st.rels[i].dst, st.rels[i].src>> >>])
PathsOfTwo(st) ==
    LET Ends(r) == <<st.rels[r].src, st.rels[r].dst>>
        Via(i, d, j, e) ==
            \* relationship i entered at end d, then relationship j entered at end e
            IF i # j /\ Ends(i)[3 - d] = Ends(j)[e]
            THEN << <<Ends(i)[d], Ends(i)[3 - d], Ends(j)[3 - e]>> >>
            ELSE <<>>
        n == Len(st.rels)
    IN  Flatten([k \in 1..(n * n * 4) |->
            Via(((k - 1) \div (n * 4)) + 1, (((k - 1) \div (n * 2)) % 2) + 1,
                (((k - 1) \div 2) % n) + 1, ((k - 1) % 2) + 1)])

\* x.name CONTAINS $query
NameContains(node, query) == node.name # PyNone /\ Contains(Spelling(node.name), query)

\* MATCH path = (start)-[*1..2]-(connected)
\* WHERE start.name CONTAINS $query OR connected.name CONTAINS $query RETURN path
MatchPaths(st, query) ==
    LET kept == SelectSeq(PathsOfOne(st) \o PathsOfTwo(st), LAMBDA p :
                    \/ NameContains(st.nodes[p[1]], query)
                    \/ NameContains(st.nodes[p[Len(p)]], query))
    IN  [i \in 1..Len(kept) |->
            << PathValue([j \in 1..Len(kept[i]) |-> st.nodes[kept[i][j]]]) >>]

\* the records matching the template of a pattern, before its LIMIT
TemplateRows(pattern, query, st) ==
    CASE pattern = "ActorRole" -> MatchRel(st, "JOUE_DANS", "Actor", "")
      [] pattern = "DirectorRole" -> MatchRel(st, "REALISE", "Director", "")
      [] pattern = "GenreMembership" -> MatchRel(st, "APPARTIENT_A_GENRE", "", "Genre")
      [] pattern = "FilmOverview" -> MatchOverview(st, "Film")
      [] pattern = "SeriesOverview" -> MatchOverview(st, "Serie")
      [] pattern = "Collaboration" -> MatchRel(st, "A_JOUÉ_AVEC", "Actor", "Actor")
      [] pattern = "GenericSubgraph" -> MatchPaths(st, query)

\* mutant: the exception of a failing query is let through
ExecuteQuery_Reraise(st, site, rows, cap) ==
    IF site \in st.fails THEN [raised |-> TRUE, records |-> <<>>]
    ELSE [raised |-> FALSE, records |-> Take(rows, cap)]

\* Neo4jClient.execute_query: the records of the query, [] when session.run
\* or the iteration raises.  site names the call: "vector" or "traversal".
ExecuteQuery(st, site, rows, cap) ==
    IF site \in st.fails THEN [raised |-> FALSE, records |-> <<>>]
    ELSE [raised |-> FALSE, records |-> Take(rows, cap)]

\* mutant: every query takes the generic branch
GraphTraversal_Generic(query, st) ==
    ExecuteQuery(st, "traversal", TemplateRows("GenericSubgraph", query, st), TraversalCap)

\* graph_traversal: route the query, run the template of the branch
GraphTraversal(query, st) ==
    ExecuteQuery(st, "traversal", TemplateRows(Classify(query), query, st), TraversalCap)

(***************************************************************************)
(* vector_search (src/agent/graphrag.py lines 26-74).                      *)
(*                                                                         *)
(* An embedding property is [t, v]: "list" a list of numbers, "strlist" a  *)
(* list of n texts, "int" a number, "str" a text.  A similarity is kept    *)
(* exactly as [dot, den2], the number dot / sqrt(den2).                    *)
(***************************************************************************)
NonNumeric(n) == [t |-> "strlist", v |-> n]

\* truth value of a property value
TruthyValue(val) ==
    CASE val.t = "list" -> val.v # <<>>
      [] val.t = "strlist" -> val.v > 0
      [] val.t = "int" -> val.v # 0
      [] val.t = "str" -> val.v # ""
      [] val.t = "bool" -> val.v
      [] val.t = "none" -> FALSE

RECURSIVE Dot(_, _)
Dot(a, b) == IF a = <<>> THEN 0 ELSE Head(a) * Head(b) + Dot(Tail(a), Tail(b))
\* the square of np.linalg.norm
Norm2(a) == Dot(a, a)

Sim(dot, den2) == [dot |-> dot, den2 |-> den2]
\* a < b for two similarities
SimLess(a, b) ==
    IF a.dot >= 0 /\ b.dot >= 0 THEN a.dot * a.dot * b.den2 < b.dot * b.dot * a.den2
    ELSE IF a.dot < 0 /\ b.dot < 0 THEN a.dot * a.dot * b.den2 > b.dot * b.dot * a.den2
    ELSE a.dot < b.dot

\* mutant: a zero-norm vector is given similarity 0 instead of being skipped
ScoreCandidate_KeepZeroNorm(query_vec, node) ==
    IF ~HasProp(node.items, "embedding") THEN <<>>
    ELSE LET emb == PropOf(node.items, "embedding")
         IN  IF ~TruthyValue(emb) THEN <<>>
             ELSE IF emb.t # "list" THEN <<>>
             ELSE IF Len(emb.v) # Len(query_vec) THEN <<>>
             ELSE IF Norm2(query_vec) > 0 /\ Norm2(emb.v) > 0
                  THEN << [n |-> node,
                           similarity |-> Sim(Dot(query_vec, emb.v),
                                              Norm2(query_vec) * Norm2(emb.v))] >>
                  ELSE << [n |-> node, similarity |-> Sim(0, 1)] >>

\* the body of the loop over all_nodes, lines 45-70: the result appended for
\* a candidate, none when it is skipped.  np.dot raises on a list of texts,
\* on a text and on a list of another length than the query vector; on a
\* number it gives a vector, which float() refuses; the except skips those.
ScoreCandidate(query_vec, node) ==
    IF ~HasProp(node.items, "embedding") THEN <<>>
    ELSE LET emb == PropOf(node.items, "embedding")
         IN  IF ~TruthyValue(emb) THEN <<>>
             ELSE IF emb.t # "list" THEN <<>>
             ELSE IF Len(emb.v) # Len(query_vec) THEN <<>>
             ELSE IF Norm2(query_vec) > 0 /\ Norm2(emb.v) > 0
                  THEN << [n |-> node,
                           similarity |-> Sim(Dot(query_vec, emb.v),
                                              Norm2(query_vec) * Norm2(emb.v))] >>
                  ELSE <<>>

\* where a result goes in a list sorted so far: behind everything that is
\* not smaller
InsertDescending(sorted, x) ==
    LET before == {i \in 1..Len(sorted) : SimLess(sorted[i].similarity, x.similarity)}
        at == IF before = {} THEN Len(sorted) + 1
              ELSE CHOOSE i \in before : \A j \in before : i <= j
    IN  SubSeq(sorted, 1, at - 1) \o <<x>> \o SubSeq(sorted, at, Len(sorted))

\* mutant: ascending order
SortBySimilarity_Ascending(results) ==
    LET RECURSIVE Into(_, _)
        Into(acc, rest) ==
            IF rest = <<>> THEN acc
            ELSE LET x == Head(rest)
                     after == {i \in 1..Len(acc) : SimLess(x.similarity, acc[i].similarity)}
                     at == IF after = {} THEN Len(acc) + 1
                           ELSE CHOOSE i \in after : \A j \in after : i <= j
                 IN  Into(SubSeq(acc, 1, at - 1) \o <<x>> \o SubSeq(acc, at, Len(acc)),
                          Tail(rest))
    IN  Into(<<>>, results)

\* results.sort(key=similarity, reverse=True): stable, descending
SortBySimilarity(results) ==
    LET RECURSIVE Into(_, _)
        Into(acc, rest) ==
            IF rest = <<>> THEN acc ELSE Into(InsertDescending(acc, Head(rest)), Tail(rest))
    IN  Into(<<>>, results)

\* MATCH (n:label) WHERE n.embedding IS NOT NULL RETURN n
\* mutant: the label is not part of the pattern
MatchEmbedded_AnyLabel(st, label) ==
    SelectSeq(st.nodes, LAMBDA n : HasProp(n.items, "embedding"))

MatchEmbedded(st, label) ==
    SelectSeq(st.nodes, LAMBDA n : HasLabel(n, label) /\ HasProp(n.items, "embedding"))

\* mutant: the slice to top_k is missing
TopK_All(results, top_k) == results

\* results[:top_k]
TopK(results, top_k) == Take(results, top_k)

\* vector_search: embed the query (get_embedding raises when the model
\* does), query the candidates, score them, sort, cut to top_k
VectorSearch(emb, st, top_k, label) ==
    IF ~emb.ok THEN [raised |-> TRUE, results |-> <<>>]
    ELSE Bind(ExecuteQuery(st, "vector", MatchEmbedded(st, label), CandidateCap), LAMBDA q :
        IF q.raised THEN [raised |-> TRUE, results |-> <<>>]
        ELSE Bind(Flatten([i \in 1..Len(q.records) |-> ScoreCandidate(emb.qvec, q.records[i])]),
                  LAMBDA results :
                      [raised |-> FALSE, results |-> TopK(SortBySimilarity(results), top_k)]))

(***************************************************************************)
(* Rendering and the hybrid pipeline (src/agent/graphrag.py lines          *)
(* 133-225), and GraphQueryTool._run over it.  The rendered context is the *)
(* sequence of its lines: [line |-> "head", type, name] and                *)
(* [line |-> "prop", key, value].                                          *)
(***************************************************************************)
\* the node type _build_context infers from the property names
NodeType(node) ==
    LET Has(k) == HasProp(node.items, k)
    IN  IF Has("nationality") \/ Has("born")
        THEN IF Has("seasons") \/ Has("episodes") THEN "Serie"
             ELSE IF Has("year") \/ Has("duration") THEN "Film"
             ELSE "Actor"
        ELSE IF Has("year") \/ Has("duration") THEN "Film"
        ELSE IF Has("seasons") \/ Has("episodes") THEN "Serie"
        ELSE IF Has("name") /\ ~Has("nationality") /\ ~Has("year") THEN "Genre"
        ELSE "Node"

\* the lines _build_context appends for one fused node
NodeLines(node) ==
    LET props == SelectSeq(node.items, LAMBDA it :
                     it.k \notin {"embedding", "id"} /\ it.v # NoneProp)
        shown == SelectSeq(props, LAMBDA it : TruthyValue(it.v))
    IN  << [line |-> "head", type |-> NodeType(node),
            name |-> IF HasProp(node.items, "name") THEN node.name ELSE "Unknown"] >>
        \o [i \in 1..Len(shown) |-> [line |-> "prop", key |-> shown[i].k, value |-> shown[i].v]]

NoContextFound == << [line |-> "No relevant context found."] >>

\* mutant: an empty context is rendered as no line at all
BuildContext_NoSentinel(nodes) ==
    Flatten([i \in 1..Len(nodes) |-> NodeLines(nodes[i].node)])

\* _build_context
BuildContext(nodes) ==
    Bind(Flatten([i \in 1..Len(nodes) |-> NodeLines(nodes[i].node)]), LAMBDA context_parts :
        IF context_parts # <<>> THEN context_parts ELSE NoContextFound)

CountSource(nodes, source) == Len(SelectSeq(nodes, LAMBDA n : n.source = source))

\* top_k handed to hybrid_retrieval by the tool, label default of vector_search
ToolTopK == 5
DefaultLabel == "Node"

\* hybrid_retrieval: the returned dict, with the two search results kept
HybridRetrievalOf(query, top_k, st, emb) ==
    Bind(VectorSearch(emb, st, top_k, DefaultLabel), LAMBDA v :
        IF v.raised THEN [raised |-> TRUE]
        ELSE Bind(GraphTraversal(query, st), LAMBDA t :
            IF t.raised THEN [raised |-> TRUE]
            ELSE IF FuseRaises(v.results, t.records) THEN [raised |-> TRUE]
            ELSE Bind(Fuse(v.results, t.records), LAMBDA nodes :
                [raised |-> FALSE,
                 vector_results |-> v.results,
                 traversal_results |-> t.records,
                 context |-> BuildContext(nodes),
                 nodes |-> nodes,
                 vector_count |-> CountSource(nodes, "vector"),
                 traversal_count |-> CountSource(nodes, "traversal")])))

\* json.dumps refuses the Node and Path values of a record; null it writes
JsonSerializable(records) ==
    \A i \in 1..Len(records) : \A j \in 1..Len(records[i]) : records[i][j].kind = "other"

\* the body of the try in GraphQueryTool._run, over a graph store
GraphQueryOverBody(query, use_vector_search, st, emb) ==
    IF use_vector_search
    THEN Bind(HybridRetrievalOf(query, ToolTopK, st, emb), LAMBDA result :
             IF result.raised THEN Raised("Exception")
             ELSE Returned(Text("Graph Context:\n",
                               [context |-> result.context, found |-> Len(result.nodes)])))
    ELSE Bind(GraphTraversal(query, st), LAMBDA result :
             IF result.raised THEN Raised("Exception")
             ELSE IF ~JsonSerializable(result.records) THEN Raised("TypeError")
             ELSE Returned(Text("Graph Traversal Results: ", [records |-> result.records])))

\* GraphQueryTool._run over a graph store
GraphQueryOver(query, use_vector_search, st, emb) ==
    TryExcept(GraphQueryOverBody(query, use_vector_search, st, emb), "Error querying graph: ")

(***************************************************************************)
(* SpecRank: one call of vector_search; the candidates, the query vector   *)
(* and top_k are drawn from bounded sets.                                  *)
(***************************************************************************)
Components == {-1, 0, 1}
QueryVecs == {<<0, 0>>, <<1, 0>>, <<1, 1>>}
Absent == [t |-> "absent", v |-> 0]
\* what a candidate may carry as its embedding: nothing, an empty list, a
\* vector of the query's length, a shorter one, texts, a number, a text
EmbeddingValues ==
    {Vec(<<x, y>>) : x \in Components, y \in {0, 1}}
    \cup {Absent, Vec(<<>>), Vec(<<1>>), NonNumeric(2), Num(5), Str("abc")}

CandidateIds == <<"n1", "n2", "n3", "n4", "n5">>
Candidate(i, e) ==
    GraphNode({"Node"},
              <<Item("id", Str(CandidateIds[i]))>>
              \o (IF e = Absent THEN <<>> ELSE <<Item("embedding", e)>>))

RankStores ==
    UNION {{[fails |-> f, nodes |-> [i \in 1..n |-> Candidate(i, es[i])], rels |-> <<>>] :
               es \in [1..n -> EmbeddingValues], f \in {{}, {"vector"}}}
           : n \in 0..MaxCand}

Embedders == {[ok |-> TRUE, qvec |-> q] : q \in QueryVecs} \cup {[ok |-> FALSE, qvec |-> <<>>]}

InitRank ==
    /\ LoopIdle
    /\ ToolsIdle
    /\ FuseIdle
    /\ store \in RankStores
    /\ embedder \in Embedders
    /\ retrieval \in {[done |-> FALSE, top_k |-> k] : k \in 0..MaxTopK}
    /\ runs = NoRuns

RunVectorSearch ==
    /\ ~retrieval.done
    /\ retrieval' = [done |-> TRUE, top_k |-> retrieval.top_k,
                     search |-> VectorSearch(embedder, store, retrieval.top_k, DefaultLabel)]
    /\ UNCHANGED <<store, embedder, runs, loopVars, toolVars, fuseVars>>

NextRank == RunVectorSearch

SpecRank == InitRank /\ [][NextRank]_vars

(***************************************************************************)
(* SpecRetrieve: one graph_query invocation over a graph store.            *)
(*                                                                         *)
(* The graph holds two actors and two films; the second film carries the   *)
(* id of the first actor.  Its JOUE_DANS relationships are a run of        *)
(* relationships of the second actor followed by a few free ones.          *)
(***************************************************************************)
NodeNames == <<"Leonardo DiCaprio", "Tom Hardy", "Inception", "Leo">>
NodeNamed(name) == CHOOSE i \in 1..Len(NodeNames) : NodeNames[i] = name
Leo == NodeNamed("Leonardo DiCaprio")
Tom == NodeNamed("Tom Hardy")
Inception == NodeNamed("Inception")
LeoFilm == NodeNamed("Leo")

GraphNodes(labelled) ==
    LET With(i, labels) == IF i \in labelled THEN labels \cup {"Node"} ELSE labels
    IN  << GraphNode(With(Leo, {"Actor"}),
               <<Item("id", Str("leonardo")), Item("name", Str("Leonardo DiCaprio")),
                 Item("nationality", Str("American")), Item("born", Num(1974)),
                 Item("embedding", Vec(<<1, 0>>))>>),
           GraphNode(With(Tom, {"Actor"}),
               <<Item("id", Str("tom")), Item("name", Str("Tom Hardy")),
                 Item("nationality", Str("British")), Item("born", Num(1977)),
                 Item("embedding", Vec(<<0, 1>>))>>),
           GraphNode(With(Inception, {"Film"}),
               <<Item("id", Str("inception")), Item("name", Str("Inception")),
                 Item("year", Num(2010)), Item("embedding", Vec(<<1, 1>>))>>),
           GraphNode(With(LeoFilm, {"Film"}),
               <<Item("id", Str("leonardo")), Item("name", Str("Leo")),
                 Item("year", Num(2002)), Item("embedding", Vec(<<1, 0>>))>>) >>

ActsIn(a, f) == Rel("JOUE_DANS", a, f)
FreeRels == {ActsIn(Leo, Inception), ActsIn(Tom, LeoFilm)}
Padding(k) == [i \in 1..k |-> ActsIn(Tom, Inception)]

GraphStores ==
    {[fails |-> f, nodes |-> GraphNodes(labelled), rels |-> Padding(k) \o free] :
        f \in SUBSET {"vector", "traversal"},
        labelled \in {l \in SUBSET (1..Len(NodeNames)) : Cardinality(l) <= MaxCand - 1},
        k \in {0, MaxPad - 1, MaxPad},
        free \in UNION {[1..n -> FreeRels] : n \in 0..MaxFree}}

QueryActed ==
    <<"W", "h", "o", " ", "a", "c", "t", "e", "d", " ", "i", "n", " ",
      "I", "n", "c", "e", "p", "t", "i", "o", "n", "?">>
QueryName == <<"I", "n", "c", "e", "p", "t", "i", "o", "n">>
\* two words, none holding a keyword of a pattern
QueryCast == <<"I", "n", "c", "e", "p", "t", "i", "o", "n", " ", "c", "a", "s", "t">>
GraphQueries == {QueryActed, QueryName, QueryCast}

InitRetrieve ==
    /\ LoopIdle
    /\ FuseIdle
    /\ store \in GraphStores
    /\ embedder \in {[ok |-> o, qvec |-> <<1, 0>>] : o \in BOOLEAN}
    /\ call \in {ToolCall("graph_query", q, u, "ok") : q \in GraphQueries, u \in BOOLEAN}
    /\ tool_result = NoResult
    /\ retrieval = NoRetrieval
    /\ runs = NoRuns

RunGraphQueryOver ==
    /\ call.name = "graph_query"
    /\ tool_result = NoResult
    /\ tool_result' = GraphQueryOver(call.expression, call.use_vector_search, store, embedder)
    /\ retrieval' = [done |-> TRUE,
                     hybrid |-> IF call.use_vector_search
                                THEN HybridRetrievalOf(call.expression, ToolTopK, store, embedder)
                                ELSE [raised |-> FALSE]]
    /\ UNCHANGED <<call, store, embedder, runs, loopVars, fuseVars>>

NextRetrieve == RunGraphQueryOver

SpecRetrieve == InitRetrieve /\ [][NextRetrieve]_vars

(***************************************************************************)
(* SpecConc: several calls of AgenticAI.query on one agent, their node     *)
(* executions interleaved (src/app.py shares the agent between sessions).  *)
(*                                                                         *)
(* runs.pc[q] is the position of query q, runs.state[k] the AgentState     *)
(* with key k, runs.output[q] what query q returned.  Every message, step  *)
(* and tool name is recorded with the query whose node execution wrote it. *)
(***************************************************************************)
QueryIds == {1, 2}
QueryText(q) == IF q = 1 THEN "first query" ELSE "other query"

Owned(q, item) == [owner |-> q, item |-> item]
OwnedAll(q, items) == [i \in 1..Len(items) |-> Owned(q, items[i])]
Items(owned) == [i \in 1..Len(owned) |-> owned[i].item]

\* mutant: the state is one object of the agent, used by every call
StateKey_Shared(q) == 1

\* query builds initial_state as a new dict with new lists in every call,
\* and graph.invoke keeps the channels of one invocation to itself
StateKey(q) == q

InitialState(q) ==
    [messages |-> <<Owned(q, HumanMessage(QueryText(q)))>>, steps |-> <<>>, tools_used |-> <<>>]

\* what llm_with_tools.invoke may return for a transcript
ConcResponses(msgs) ==
    IF Len(SelectSeq(msgs, LAMBDA m : m.type = "ai")) < MaxConcRounds
    THEN {AIMessage("answer", calls) : calls \in {<<>>} \cup {<<c>> : c \in OrderCalls}}
    ELSE {AIMessage("answer", <<>>)}

InitConc ==
    /\ LoopIdle
    /\ ToolsIdle
    /\ FuseIdle
    /\ store = EmptyStore
    /\ embedder = [ok |-> TRUE, qvec |-> <<>>]
    /\ retrieval = NoRetrieval
    /\ runs = [pc |-> [q \in QueryIds |-> "idle"],
               state |-> [k \in QueryIds |-> [messages |-> <<>>, steps |-> <<>>, tools_used |-> <<>>]],
               output |-> [q \in QueryIds |-> NoOutput]]

ConcUnchanged == UNCHANGED <<loopVars, toolVars, fuseVars, store, embedder, retrieval>>

\* query, lines 116-123
SubmitConc(q) ==
    /\ runs.pc[q] = "idle"
    /\ runs' = [runs EXCEPT !.pc[q] = "agent", !.state[StateKey(q)] = InitialState(q)]
    /\ ConcUnchanged

\* _agent_node of query q followed by the conditional edge
AgentNodeConc(q) ==
    /\ runs.pc[q] = "agent"
    /\ LET state == runs.state[StateKey(q)]
       IN  \E response \in ConcResponses(Items(state.messages)) :
             LET tool_names == ToolNamesOf(response.tool_calls)
                 after ==
                     [messages |-> AddMessages(state.messages, <<Owned(q, response)>>),
                      steps |-> IF response.tool_calls # <<>>
                                THEN Append(state.steps, Owned(q, SelectionStep(tool_names)))
                                ELSE state.steps,
                      tools_used |-> IF response.tool_calls # <<>>
                                     THEN state.tools_used \o OwnedAll(q, tool_names)
                                     ELSE state.tools_used]
             IN  runs' = [runs EXCEPT !.state[StateKey(q)] = after,
                                      !.pc[q] = AgentEdge(Items(after.messages))]
    /\ ConcUnchanged

\* the tool node of query q followed by the edge back to "agent"
ToolsNodeConc(q) ==
    /\ runs.pc[q] = "tools"
    /\ LET state == runs.state[StateKey(q)]
       IN  \E results \in ToolNodeResults(PendingCalls(Items(state.messages))) :
             runs' = [runs EXCEPT
                        !.state[StateKey(q)].messages = AddMessages(state.messages, OwnedAll(q, results)),
                        !.pc[q] = ToolsEdge]
    /\ ConcUnchanged

\* query, lines 125-134
ReturnConc(q) ==
    /\ runs.pc[q] = "end"
    /\ LET state == runs.state[StateKey(q)]
       IN  \E deduped \in DedupTools(Items(state.tools_used)) :
             runs' = [runs EXCEPT
                        !.output[q] = [response |-> FinalResponse(Items(state.messages)),
                                       tools_used |-> deduped,
                                       steps |-> Items(state.steps),
                                       message_count |-> MessageCount(state.messages)],
                        !.pc[q] = "done"]
    /\ ConcUnchanged

StepConc(q) == SubmitConc(q) \/ AgentNodeConc(q) \/ ToolsNodeConc(q) \/ ReturnConc(q)

NextConc ==
    \/ \E q \in QueryIds : SubmitConc(q)
    \/ \E q \in QueryIds : AgentNodeConc(q)
    \/ \E q \in QueryIds : ToolsNodeConc(q)
    \/ \E q \in QueryIds : ReturnConc(q)

SpecConc == InitConc /\ [][NextConc]_vars

(***************************************************************************)
(* SpecRoute: one routing decision of graph_traversal; the query is a few  *)
(* words in lower case, in upper case or with a capital first letter.      *)
(***************************************************************************)
UpperChar(c) ==
    IF \E i \in 1..Len(LowerCase) : LowerCase[i] = c
    THEN UpperCase[CHOOSE i \in 1..Len(LowerCase) : LowerCase[i] = c]
    ELSE c
Upper(s) == [i \in 1..Len(s) |-> UpperChar(s[i])]
Capitalised(s) == [i \in 1..Len(s) |-> IF i = 1 THEN UpperChar(s[i]) ELSE s[i]]

Keywords == UNION {{Patterns[p].keywords[k] : k \in 1..Len(Patterns[p].keywords)} : p \in 1..Len(Patterns)}
WordCharacters == <<"c", "h", "a", "r", "a", "c", "t", "e", "r", "s">>
WordUnmatched == <<"x", "y", "z">>
WordInception == <<"i", "n", "c", "e", "p", "t", "i", "o", "n">>
QueryWords == Keywords \cup {WordCharacters, WordUnmatched, WordInception}

RECURSIVE Join(_)
Join(words) ==
    IF Len(words) = 1 THEN words[1] ELSE words[1] \o <<" ">> \o Join(Tail(words))

\* the query of the "Graph Traversal" scenario
QueryWorkedTogether ==
    <<"W", "h", "i", "c", "h", " ", "a", "c", "t", "o", "r", "s", " ",
      "w", "o", "r", "k", "e", "d", " ", "t", "o", "g", "e", "t", "h", "e", "r", "?">>

RouteQueries ==
    {QueryWorkedTogether, QueryActed} \cup
    UNION {{Join(words), Upper(Join(words)), Capitalised(Join(words))} :
              words \in UNION {[1..n -> QueryWords] : n \in 1..MaxWords}}

InitRoute ==
    /\ LoopIdle
    /\ FuseIdle
    /\ store = EmptyStore
    /\ embedder = [ok |-> TRUE, qvec |-> <<>>]
    /\ runs = NoRuns
    /\ call \in {ToolCall("graph_query", q, FALSE, "ok") : q \in RouteQueries}
    /\ tool_result = NoResult
    /\ retrieval = NoRetrieval

\* graph_traversal up to the choice of the Cypher template
RunClassify ==
    /\ ~retrieval.done
    /\ retrieval' = [done |-> TRUE, pattern |-> Classify(call.expression)]
    /\ UNCHANGED <<call, tool_result, store, embedder, runs, loopVars, fuseVars>>

NextRoute == RunClassify

SpecRoute == InitRoute /\ [][NextRoute]_vars

(***************************************************************************)
(* SpecRender: _build_context over one fused node whose properties are a   *)
(* few of the properties of the schema, some of them null, 0, false or     *)
(* empty.                                                                  *)
(***************************************************************************)
RenderKeys ==
    <<"id", "name", "nationality", "born", "seasons", "episodes", "year", "duration",
      "rating", "ongoing", "embedding">>

ValuesOf(key) ==
    CASE key = "id" -> {Str("dark")}
      [] key = "name" -> {Str("Dark"), Str("")}
      [] key = "nationality" -> {Str("German")}
      [] key \in {"born", "year", "duration", "episodes"} -> {Num(26)}
      [] key = "seasons" -> {Num(3), Num(0)}
      [] key = "rating" -> {Num(8), NoneProp}
      [] key = "ongoing" -> {Bool(TRUE), Bool(FALSE)}
      [] key = "embedding" -> {Vec(<<1, 0>>)}

\* the dicts over a set of keys, in the order of RenderKeys
RECURSIVE ItemsOver(_, _)
ItemsOver(keys, from) ==
    IF from > Len(RenderKeys) THEN {<<>>}
    ELSE IF RenderKeys[from] \in keys
         THEN {<<Item(RenderKeys[from], v)>> \o rest :
                  v \in ValuesOf(RenderKeys[from]), rest \in ItemsOver(keys, from + 1)}
         ELSE ItemsOver(keys, from + 1)

RenderNodes ==
    UNION {{GraphNode({}, items) : items \in ItemsOver(keys, 1)} :
              keys \in {ks \in SUBSET SetOf(RenderKeys) : Cardinality(ks) <= MaxProps}}

InitRender ==
    /\ LoopIdle
    /\ ToolsIdle
    /\ FuseIdle
    /\ embedder = [ok |-> TRUE, qvec |-> <<>>]
    /\ runs = NoRuns
    /\ retrieval = NoRetrieval
    /\ store \in {[fails |-> {}, nodes |-> nodes, rels |-> <<>>] :
                     nodes \in {<<>>} \cup {<<n>> : n \in RenderNodes}}

\* _build_context(context_nodes.values()) for the nodes at hand
RunRender ==
    /\ ~retrieval.done
    /\ retrieval' =
         [done |-> TRUE,
          context |-> BuildContext([i \in 1..Len(store.nodes) |->
                          Entry(NodeKey(store.nodes[i]), store.nodes[i], TraversalDefault, "traversal")])]
    /\ UNCHANGED <<store, embedder, runs, loopVars, toolVars, fuseVars>>

NextRender == RunRender

SpecRender == InitRender /\ [][NextRender]_vars

(***************************************************************************)
(* Properties                                                              *)
(***************************************************************************)
CountIn(seq, x) == Cardinality({i \in 1..Len(seq) : seq[i] = x})

\* the tool names requested by the reasoning responses of a transcript,
\* round after round, duplicates included
RECURSIVE RequestedNames(_)
RequestedNames(msgs) ==
    IF msgs = <<>> THEN <<>>
    ELSE (IF Head(msgs).type = "ai" THEN ToolNamesOf(Head(msgs).tool_calls) ELSE <<>>)
         \o RequestedNames(Tail(msgs))

LastMessage == messages[Len(messages)]

\* C1: the running tools_used collection is the concatenation of the names
\* requested in every Reasoning round, duplicates included; the tools_used
\* value query returns holds each requested name exactly once and no other
\* name.
C1_ToolsUsedDedupedOnceAtOutput ==
    /\ tools_used = RequestedNames(messages)
    /\ pc = "done" =>
         \A name \in ToolNames \cup SetOf(output.tools_used) :
            CountIn(output.tools_used, name)
              = (IF \E i \in 1..Len(tools_used) : tools_used[i] = name THEN 1 ELSE 0)

\* a finished run that requested some tool more than once, over several rounds
C1_Witness ==
    /\ pc = "done"
    /\ Len(steps) >= 2
    /\ Len(tools_used) > Cardinality(SetOf(tools_used))
    /\ Len(output.tools_used) >= 2

\* C2: on Done the returned response is the content of the last transcript
\* message, which is the Reasoning response without tool calls, and the
\* returned message_count is the length of the transcript.
C2_ResponseIsLastMessage ==
    pc = "done" =>
        /\ LastMessage.type = "ai"
        /\ LastMessage.tool_calls = <<>>
        /\ output.response = LastMessage.content
        /\ output.message_count = Len(messages)

\* a finished run whose transcript also holds tool results
C2_Witness ==
    /\ pc = "done"
    /\ \E i \in 1..Len(messages) : messages[i].type = "tool"
    /\ output.message_count >= 5

FirstResponseHasNoToolCalls ==
    /\ Len(messages) >= 2
    /\ messages[2].type = "ai"
    /\ messages[2].tool_calls = <<>>

\* C3: when the first Reasoning round answers without tool calls the run
\* goes straight to the end: the tool node never runs, no tool is invoked,
\* the transcript stays at two messages, and tools_used and steps are empty
\* in the state and in the returned value.
C3_NoToolCallsGoesStraightToDone ==
    FirstResponseHasNoToolCalls =>
        /\ pc \in {"end", "done"}
        /\ supersteps = 1
        /\ invoked = <<>>
        /\ Len(messages) = 2
        /\ tools_used = <<>>
        /\ steps = <<>>
        /\ pc = "done" => (output.tools_used = <<>> /\ output.steps = <<>>)

C3_Witness ==
    /\ FirstResponseHasNoToolCalls
    /\ pc = "done"
    /\ output.message_count = 2

NoToolResponse ==
    /\ messages # <<>>
    /\ LastMessage.type = "ai"
    /\ LastMessage.tool_calls = <<>>

SameNames(a, b) ==
    /\ Len(a) = Len(b)
    /\ \A x \in SetOf(a) \cup SetOf(b) :
         Cardinality({i \in 1..Len(a) : a[i] = x}) = Cardinality({i \in 1..Len(b) : b[i] = x})

\* C5 as stated: whatever the number of consecutive rounds that request
\* tools, the run is never aborted because of the round count.
C5_NeverAbortedByRoundCount == pc # "aborted"

\* C5 amended: the only ceiling is the recursion limit of the graph
\* runtime.  Until it is used up every requested tool call is executed and
\* the run ends only on a response without tool calls; the run is aborted
\* exactly when RecursionLimit node executions have run and the tool node
\* is still due, and then query returns nothing.
C5_OnlyTheRecursionLimitStopsTheLoop ==
    /\ pc \in {"agent", "end", "done"} => SameNames(invoked, tools_used)
    /\ pc \in {"tools", "aborted"} =>
         SameNames(invoked \o ToolNamesOf(LastMessage.tool_calls), tools_used)
    /\ pc \in {"end", "done"} => NoToolResponse
    /\ pc = "aborted" =>
         /\ supersteps = RecursionLimit
         /\ LastMessage.tool_calls # <<>>
         /\ output = NoOutput
    /\ supersteps < RecursionLimit => pc # "aborted"

\* an aborted run: a tool request in every round until the limit
C5_Witness ==
    /\ pc = "aborted"
    /\ Len(steps) * 2 = supersteps + 1
    /\ Len(steps) >= 10

ToolFailed ==
    \/ call.name = "graph_query" /\ call.inner = "raise"
    \/ call.name = "calculator" /\ IsErr(PyEval(SelectSeq(call.expression, LAMBDA c : c \in AllowedChars)))

ErrorPrefix(name) ==
    CASE name = "graph_query" -> "Error querying graph: "
      [] name = "calculator" -> "Error calculating: "
      [] name = "web_search" -> "no failure"

ArithmeticChars ==
    {"0", "1", "2", "3", "4", "5", "6", "7", "8", "9",
     "+", "-", "*", "/", "(", ")", ".", " ", "\t", "\n", "\r", "\f"}

\* C7: the string the calculator evaluates is made of digits, + - * / ( ) .
\* and whitespace only, and it is the input's characters of that kind in
\* their original order: no letter, underscore or other character is left.
C7_EvaluatedStringIsArithmeticOnly ==
    (call.name = "calculator" /\ tool_result # NoResult) =>
        /\ \A i \in 1..Len(tool_result.evaluated) : tool_result.evaluated[i] \in ArithmeticChars
        /\ tool_result.evaluated = SelectSeq(call.expression, LAMBDA c : c \in ArithmeticChars)

\* an input with characters of both kinds
C7_Witness ==
    /\ call.name = "calculator"
    /\ tool_result # NoResult
    /\ \E i \in 1..Len(call.expression) : call.expression[i] = "_"
    /\ Len(tool_result.evaluated) >= 2
    /\ Len(tool_result.evaluated) < Len(call.expression)

HasDisallowedChar(expression) ==
    \E i \in 1..Len(expression) : expression[i] \notin AllowedChars

\* C8 as stated: an input with at least one character outside the allowed
\* set yields the error text, never a 'Result: ' value.
C8_DisallowedCharYieldsError ==
    (call.name = "calculator" /\ tool_result # NoResult /\ HasDisallowedChar(call.expression)) =>
        tool_result.text.prefix = "Error calculating: "

\* C8 amended: the characters outside the allowed set are deleted and the
\* rest is evaluated; the outcome is the one of the input without those
\* characters: the error text when what is left is no valid expression or
\* fails to evaluate, 'Result: ' with its value otherwise.
C8_OutcomeIsThatOfTheStrippedInput ==
    (call.name = "calculator" /\ tool_result # NoResult) =>
        LET stripped == SelectSeq(call.expression, LAMBDA c : c \in AllowedChars)
            value == PyEval(stripped)
        IN  /\ tool_result.text
                 = (IF IsErr(value) THEN Text("Error calculating: ", value)
                                    ELSE Text("Result: ", value))
            /\ stripped = <<>> => tool_result.text.prefix = "Error calculating: "

\* test scenario 4: the words are deleted and the arithmetic is evaluated
C8_Witness ==
    /\ call.name = "calculator"
    /\ call.expression = ExprScenario4
    /\ HasDisallowedChar(call.expression)
    /\ tool_result.text = Text("Result: ", IntVal(6767))

\* the tool message answering call j of the reasoning response at index i
ResultOf(i, j) == messages[i + j]

\* C9: in the loop, a calculator call whose expression is empty, malformed
\* or divides by zero is answered by a tool message starting with
\* 'Error calculating: ', '2 + 2' is answered by 'Result: 4', and after the
\* tool results the run continues with the next Reasoning round.
C9_CalculatorErrorsAreTextAndLoopContinues ==
    /\ \A i \in 1..Len(messages) : \A j \in 1..Len(messages[i].tool_calls) :
         (i + j <= Len(messages) /\ messages[i].tool_calls[j].name = "calculator") =>
            LET tc == messages[i].tool_calls[j]
            IN  /\ ResultOf(i, j).type = "tool"
                /\ tc.expression \in {<<>>, ExprTenByZero}
                      => ResultOf(i, j).content.prefix = "Error calculating: "
                /\ tc.expression = ExprTenByZero
                      => ResultOf(i, j).content.val.t = "ZeroDivisionError"
                /\ tc.expression = ExprTwoPlusTwo
                      => ResultOf(i, j).content = Text("Result: ", IntVal(4))
    /\ (messages # <<>> /\ LastMessage.type = "tool") => pc = "agent"

\* a division by zero reported as text, the next Reasoning round due
C9_Witness ==
    /\ pc = "agent"
    /\ Len(messages) >= 3
    /\ LastMessage.type = "tool"
    /\ LastMessage.content = Text("Error calculating: ", Exc("ZeroDivisionError"))

VectorKeys ==
    {NodeKey(vector_results[i].n) : i \in {k \in 1..Len(vector_results) : vector_results[k].n.kind = "node"}}

TraversalKeys ==
    UNION {{NodeKey(traversal_results[r][c]) :
               c \in {k \in 1..Len(traversal_results[r]) : traversal_results[r][k].kind = "node"}} :
           r \in 1..Len(traversal_results)}

\* C10: in the fused context no key occurs twice, and an entry whose key is
\* the key of a vector result has source=vector and carries the node and
\* the similarity of a vector result with that key, also when a traversal
\* record binds a node with the same key.
C10_FusionDedupKeepsVector ==
    context_nodes.done =>
        LET nodes == context_nodes.nodes
        IN  /\ \A i, j \in 1..Len(nodes) : nodes[i].key = nodes[j].key => i = j
            /\ \A i \in 1..Len(nodes) :
                 /\ nodes[i].key = NodeKey(nodes[i].node)
                 /\ nodes[i].key \in VectorKeys =>
                      /\ nodes[i].source = "vector"
                      /\ \E v \in 1..Len(vector_results) :
                           /\ vector_results[v].n = nodes[i].node
                           /\ vector_results[v].similarity = nodes[i].similarity
            /\ \A k \in VectorKeys \cup TraversalKeys :
                 Truthy(k) => \E i \in 1..Len(nodes) : nodes[i].key = k

\* a key found by both searches, through the id of one node and the name
\* of another
C10_Witness ==
    /\ context_nodes.done
    /\ "k1" \in VectorKeys \cap TraversalKeys
    /\ \E i \in 1..Len(vector_results) : vector_results[i].n = NodeValue("k1", "k2")
    /\ \E r \in 1..Len(traversal_results) : traversal_results[r][1] = NodeValue(PyNone, "k1")
    /\ Len(context_nodes.nodes) = 1

(***************************************************************************)
(* Graph retrieval over a store (SpecRetrieve)                             *)
(***************************************************************************)
\* a graph_query call with vector search enabled has returned
HybridReturned == tool_result # NoResult /\ call.use_vector_search

\* the rendered context of the tool result holds the text as a substring
ContextMentions(result, name) ==
    /\ result.text.prefix = "Graph Context:\n"
    /\ \E i \in 1..Len(result.text.val.context) :
         LET line == result.text.val.context[i]
         IN  \/ line.line = "head" /\ Contains(Spelling(line.name), Spelling(name))
             \/ /\ line.line = "prop"
                /\ line.value.t = "str"
                /\ Contains(Spelling(line.value.v), Spelling(name))

\* the (Actor)-[:JOUE_DANS]->(Film) pairs of the graph, in store order
ActorFilmRows(st) == MatchRel(st, "JOUE_DANS", "Actor", "Film")

KeyTakenBefore(rows, i) ==
    LET actor == rows[i][1]
        Clash(n) == n.kind = "node" /\ n # actor /\ NodeKey(n) = NodeKey(actor)
    IN  \/ \E v \in 1..Len(retrieval.hybrid.vector_results) :
             Clash(retrieval.hybrid.vector_results[v].n)
        \/ \E j \in 1..(i - 1) : \E c \in 1..Len(rows[j]) : Clash(rows[j][c])

StoreQueryFailed ==
    \/ "traversal" \in store.fails /\ (call.use_vector_search => embedder.ok)
    \/ "vector" \in store.fails /\ call.use_vector_search /\ embedder.ok

\* what the same call returns over a store that works and holds nothing
FoundNothing ==
    GraphQueryOver(call.expression, call.use_vector_search, EmptyStore, embedder)

\* C12: when a query to the graph store fails during a graph_query call, the
\* tool result is an error text, which differs from the result of a
\* retrieval that succeeded and found nothing.
C12_StoreFailureIsVisible ==
    (tool_result # NoResult /\ StoreQueryFailed) =>
        /\ tool_result.text.prefix = "Error querying graph: "
        /\ tool_result # FoundNothing

\* hybrid_retrieval has run with an embedding model that works
HybridCompleted == HybridReturned /\ retrieval.done /\ embedder.ok

\* C13: a query that fails does not raise and yields the empty sequence, as
\* a query without matches does; hybrid retrieval over a store whose
\* queries all fail completes with the "No relevant context found."
\* sentinel and a node count of 0.
C13_FailingStoreYieldsSentinel ==
    HybridCompleted =>
        /\ ~retrieval.hybrid.raised
        /\ "vector" \in store.fails => retrieval.hybrid.vector_results = <<>>
        /\ "traversal" \in store.fails => retrieval.hybrid.traversal_results = <<>>
        /\ \A site \in store.fails :
             ExecuteQuery(store, site, <<NullValue>>, CandidateCap)
                 = ExecuteQuery(EmptyStore, site, <<>>, CandidateCap)
        /\ store.fails = {"vector", "traversal"} =>
             /\ retrieval.hybrid.context = NoContextFound
             /\ retrieval.hybrid.nodes = <<>>
             /\ tool_result = Returned(Text("Graph Context:\n",
                                  [context |-> NoContextFound, found |-> 0]))

\* both queries fail over a graph in which both would have found nodes
C13_Witness ==
    /\ HybridCompleted
    /\ store.fails = {"vector", "traversal"}
    /\ call.expression = QueryActed
    /\ ActorFilmRows(store) # <<>>
    /\ MatchEmbedded(store, DefaultLabel) # <<>>
    /\ tool_result.text.val.found = 0

(***************************************************************************)
(* Ranking (SpecRank)                                                      *)
(***************************************************************************)
\* position of a node among the nodes of the store: the encounter order
PositionOf(node) == CHOOSE i \in 1..Len(store.nodes) : store.nodes[i] = node

SameSimilarity(a, b) == ~SimLess(a, b) /\ ~SimLess(b, a)

\* the embedding of the node is a non-empty list of numbers of norm > 0
HasUsableVector(node) ==
    /\ HasProp(node.items, "embedding")
    /\ PropOf(node.items, "embedding").t = "list"
    /\ PropOf(node.items, "embedding").v # <<>>
    /\ Norm2(PropOf(node.items, "embedding").v) > 0

\* what the i-th node of the store carries as its embedding
EmbeddingAt(i) ==
    IF HasProp(store.nodes[i].items, "embedding")
    THEN PropOf(store.nodes[i].items, "embedding") ELSE Absent

\* C20: vector_search returns at most top_k results, in descending cosine
\* similarity, results of equal similarity in the order the candidates
\* were met; every result is a candidate with a non-empty numeric vector
\* of positive norm, scored with its cosine similarity to the query; a
\* candidate without such a vector is left out and raises nothing.
C20_RankTopKDescendingStable ==
    (retrieval.done /\ embedder.ok) =>
        LET results == retrieval.search.results
        IN  /\ ~retrieval.search.raised
            /\ Len(results) <= retrieval.top_k
            /\ \A i, j \in 1..Len(results) :
                 i < j =>
                    /\ ~SimLess(results[i].similarity, results[j].similarity)
                    /\ SameSimilarity(results[i].similarity, results[j].similarity)
                          => PositionOf(results[i].n) < PositionOf(results[j].n)
            /\ \A i \in 1..Len(results) :
                 /\ \E c \in 1..Len(store.nodes) : store.nodes[c] = results[i].n
                 /\ HasUsableVector(results[i].n)
                 /\ LET v == PropOf(results[i].n.items, "embedding").v
                    IN  results[i].similarity
                            = Sim(Dot(embedder.qvec, v), Norm2(embedder.qvec) * Norm2(v))

\* two candidates of equal similarity and a top_k of one: the first met is
\* the one returned
C20_Witness ==
    /\ retrieval.done /\ embedder.ok /\ store.fails = {}
    /\ retrieval.top_k = 1
    /\ Len(store.nodes) = 2
    /\ embedder.qvec = <<1, 1>>
    /\ EmbeddingAt(1) = Vec(<<1, 0>>)
    /\ EmbeddingAt(2) = Vec(<<0, 1>>)
    /\ retrieval.search.results = << [n |-> store.nodes[1], similarity |-> Sim(1, 2)] >>

\* a candidate whose vector has norm zero is passed over
C20_SkipReached ==
    /\ retrieval.done /\ embedder.ok /\ store.fails = {}
    /\ Len(store.nodes) = 2
    /\ EmbeddingAt(1) = Vec(<<0, 0>>)
    /\ Len(retrieval.search.results) = 1
    /\ retrieval.search.results[1].n = store.nodes[2]

(***************************************************************************)
(* Order of the rounds and the transcript (Spec)                           *)
(***************************************************************************)
IsPrefix(a, b) == Len(a) <= Len(b) /\ SubSeq(b, 1, Len(a)) = a

\* the step is an execution of the agent node: one response is appended
ReasoningRound ==
    /\ pc = "agent"
    /\ Len(messages') = Len(messages) + 1
    /\ IsPrefix(messages, messages')
    /\ messages'[Len(messages')].type = "ai"
    /\ supersteps' = supersteps + 1

\* C15: the graph ends only in a step of the agent node whose response
\* holds no tool call, and query returns only after that; a step of the
\* tool node leads to the agent node, and the step that follows there is a
\* reasoning round, never the end, an abort or another tool round.
C15_EndOnlyWithoutCallsToolsThenReasoning ==
    [][/\ (pc' = "end" /\ pc # "end") =>
             /\ ReasoningRound
             /\ messages'[Len(messages')].tool_calls = <<>>
       /\ (pc' = "done" /\ pc # "done") => pc = "end"
       /\ pc = "tools" => pc' \in {"agent", "aborted"}
       /\ (pc = "tools" /\ pc' = "agent") => supersteps' < RecursionLimit
       /\ pc = "agent" => ReasoningRound
       /\ (pc = "agent" /\ messages'[Len(messages')].tool_calls # <<>>) => pc' = "tools"
      ]_vars

\* a run that went through a tool round and a second reasoning round has
\* returned
C15_Witness ==
    /\ pc = "done"
    /\ Len(messages) = 4
    /\ messages[3].type = "tool"
    /\ messages[4].type = "ai"

\* a step of the tool node appends one tool message per pending call, the
\* i-th answering the i-th call, and leads to the agent node
AnswersInOrder ==
    LET pending == messages[Len(messages)].tool_calls
        n == Len(pending)
    IN  /\ pc' = "agent"
        /\ Len(messages') = Len(messages) + n
        /\ IsPrefix(messages, messages')
        /\ \A i \in 1..n :
             LET m == messages'[Len(messages) + i]
             IN  /\ m.type = "tool"
                 /\ m.name = pending[i].name
                 /\ \E inner \in {"ok", "raise"} :
                      \/ m.content = RunTool(pending[i], inner).text
                      \/ RunTool(pending[i], inner).raised /\ m.content.prefix = "Error: "
        /\ Len(invoked') = Len(invoked) + n

\* C16 as stated: a step of the tool node with n pending calls runs the
\* tools one after another in the order the response lists them and
\* appends exactly n tool messages in that order before the agent node
\* runs again.
C16_ToolsRunOneAfterAnotherInOrder ==
    [][(pc = "tools" /\ pc' # "aborted") =>
          /\ AnswersInOrder
          /\ \A i \in 1..Len(messages[Len(messages)].tool_calls) :
               invoked'[Len(invoked) + i] = messages[Len(messages)].tool_calls[i].name
      ]_vars

\* C16, amended: a step of the tool node with n pending calls runs each
\* call once and appends exactly n tool messages, the i-th answering the
\* i-th call of the response, before the agent node runs again; the runs
\* themselves end in any order.
C16_ToolRoundAnswersCallsInOrder ==
    [][(pc = "tools" /\ pc' # "aborted") =>
          /\ AnswersInOrder
          /\ SameNames(SubSeq(invoked', Len(invoked) + 1, Len(invoked')),
                       [i \in 1..Len(messages[Len(messages)].tool_calls) |->
                           messages[Len(messages)].tool_calls[i].name])
      ]_vars

\* two different tools were requested in one response and answered in the
\* order of the request
C16_Witness ==
    /\ pc = "agent"
    /\ Len(messages) = 4
    /\ Len(messages[2].tool_calls) = 2
    /\ messages[2].tool_calls[1].name = "web_search"
    /\ messages[2].tool_calls[2].name = "calculator"
    /\ messages[3].type = "tool" /\ messages[3].name = "web_search"
    /\ messages[4].type = "tool" /\ messages[4].name = "calculator"
    /\ messages[4].content.prefix = "Result: "
    /\ invoked = <<"calculator", "web_search">>

\* the responses of the transcript that request tools, in order
ToolRequests(msgs) == SelectSeq(msgs, LAMBDA m : m.type = "ai" /\ m.tool_calls # <<>>)

\* C17: the steps query returns hold one tool_selection entry for each
\* reasoning round whose response requested tools, in round order, listing
\* the names of that round's calls in request order; a round without tool
\* calls adds nothing.
C17_StepsAreTheToolSelectionsInOrder ==
    pc = "done" =>
        LET requests == ToolRequests(messages)
        IN  /\ Len(output.steps) = Len(requests)
            /\ \A r \in 1..Len(requests) :
                 /\ output.steps[r].step = "tool_selection"
                 /\ Len(output.steps[r].tools) = Len(requests[r].tool_calls)
                 /\ \A i \in 1..Len(requests[r].tool_calls) :
                      output.steps[r].tools[i] = requests[r].tool_calls[i].name

\* two tool-requesting rounds, the first with two calls, then a round
\* without calls
C17_Witness ==
    /\ pc = "done"
    /\ Len(output.steps) = 2
    /\ output.steps[1].tools = <<"calculator", "web_search">>
    /\ output.steps[2].tools = <<"web_search">>
    /\ messages[Len(messages)].tool_calls = <<>>

\* C18: within one query the transcript only grows at its end: in every
\* step the transcript before it is a prefix of the transcript after it.
C18_TranscriptAppendOnly ==
    [][pc # "idle" => IsPrefix(messages, messages')]_vars

\* the transcript has grown by a response, a tool message and a response
C18_Witness ==
    /\ Len(messages) = 4
    /\ messages[1].type = "human"
    /\ messages[2].type = "ai" /\ messages[2].tool_calls # <<>>
    /\ messages[3].type = "tool"
    /\ messages[4].type = "ai"

\* C19 as stated: once the first reasoning round is over the transcript
\* starts with the system message.
C19_TranscriptStartsWithSystemMessage ==
    Len(messages) >= 2 => messages[1].type = "system"

SystemCount(msgs) == Len(SelectSeq(msgs, LAMBDA m : m.type = "system"))

\* C19, amended: in every reasoning round the list handed to the reasoning
\* capability is the system message followed by the transcript as it was,
\* so it holds exactly one system message, at its start; the transcript
\* itself never holds a system message.
C19_SystemMessageHeadsEveryPromptOnly ==
    /\ SystemCount(messages) = 0
    /\ prompt # <<>> =>
         /\ prompt[1] = SystemMessage
         /\ SystemCount(prompt) = 1
         /\ IsPrefix(Tail(prompt), messages)
         /\ Len(messages) >= Len(prompt)
         /\ messages[Len(prompt)].type = "ai"
         /\ \A i \in (Len(prompt) + 1)..Len(messages) : messages[i].type = "tool"

\* the second reasoning round: its prompt starts with the system message,
\* the transcript with the user's message
C19_Witness ==
    /\ Len(prompt) = 4
    /\ prompt[1].type = "system"
    /\ prompt[4].type = "tool"
    /\ messages[1].type = "human"
    /\ Len(messages) = 4

(***************************************************************************)
(* Size of the transcript (Spec)                                           *)
(***************************************************************************)
\* executions of the agent node in a run that ended: the supersteps
\* alternate agent, tools, ..., agent
ReasoningRounds == (supersteps + 1) \div 2

\* C28: the system message is handed to the reasoning capability only and
\* is never stored, so on Done message_count is 1 for the user's message
\* plus the number of reasoning rounds plus the number of tool messages:
\* 2 for a run without tool calls.
C28_MessageCountIsUserRoundsAndToolMessages ==
    pc = "done" =>
        /\ \A i \in 1..Len(messages) : messages[i] # SystemMessage
        /\ supersteps % 2 = 1
        /\ output.message_count = 1 + ReasoningRounds + Len(invoked)
        /\ Len(SelectSeq(messages, LAMBDA m : m.type = "ai")) = ReasoningRounds
        /\ invoked = <<>> => output.message_count = 2

\* two reasoning rounds around one tool round of two calls: 5 messages
C28_Witness ==
    /\ pc = "done"
    /\ supersteps = 3
    /\ Len(invoked) = 2
    /\ prompt[1] = SystemMessage
    /\ output.message_count = 5

(***************************************************************************)
(* Concurrent queries (SpecConc)                                           *)
(***************************************************************************)
OwnersOf(owned) == {owned[i].owner : i \in 1..Len(owned)}

\* the transcript a query's own node executions have built: the user's
\* message, then responses, each response with tool calls followed by one
\* tool message per call
OwnTranscript(q, msgs) ==
    /\ msgs # <<>>
    /\ msgs[1] = HumanMessage(QueryText(q))
    /\ \A i \in 2..Len(msgs) : msgs[i].type \in {"ai", "tool"}
    /\ \A i \in 2..Len(msgs) : msgs[i].type = "tool" => msgs[i - 1].type \in {"ai", "tool"}
    /\ \A i \in 2..Len(msgs) : msgs[i].type = "ai" => msgs[i - 1].type \in {"human", "tool"}

\* C14: with several queries running on one agent, in every interleaving
\* the transcript, the steps and the tools_used of a query hold only what
\* that query's own node executions wrote, what a query returns is built
\* from its own transcript, and a query that has a step to take can take
\* it whatever the position of the others.
C14_ConcurrentQueriesIsolated ==
    \A q \in QueryIds :
        LET state == runs.state[StateKey(q)]
        IN  /\ runs.pc[q] # "idle" =>
                 /\ OwnersOf(state.messages) = {q}
                 /\ OwnersOf(state.steps) \subseteq {q}
                 /\ OwnersOf(state.tools_used) \subseteq {q}
                 /\ OwnTranscript(q, Items(state.messages))
                 /\ Len(state.steps) =
                        Len(SelectSeq(state.messages, LAMBDA m : m.item.tool_calls # <<>>))
            /\ runs.pc[q] = "done" =>
                 /\ runs.output[q].message_count = Len(state.messages)
                 /\ runs.output[q].response = state.messages[Len(state.messages)].item.content
                 /\ Len(runs.output[q].steps) = Len(state.steps)
            /\ runs.pc[q] \in {"idle", "agent", "tools", "end"} => ENABLED StepConc(q)

\* both queries are in the middle of their runs, each after a tool round
\* with a different tool
C14_Witness ==
    /\ runs.pc[1] = "agent" /\ runs.pc[2] = "agent"
    /\ Len(runs.state[1].messages) = 3 /\ Len(runs.state[2].messages) = 3
    /\ runs.state[1].tools_used = <<Owned(1, "calculator")>>
    /\ runs.state[2].tools_used = <<Owned(2, "web_search")>>

(***************************************************************************)
(* Routing (SpecRoute)                                                     *)
(***************************************************************************)
PatternNames == [p \in 1..Len(Patterns) |-> Patterns[p].pattern]

\* some keyword of the p-th pattern occurs in the lower-cased text
KeywordOccurs(lowered, p) ==
    \E k \in 1..Len(Patterns[p].keywords) :
        \E i \in 0..(Len(lowered) - Len(Patterns[p].keywords[k])) :
            SubSeq(lowered, i + 1, i + Len(Patterns[p].keywords[k])) = Patterns[p].keywords[k]

\* the patterns one of whose keywords occurs in the text, letter case aside
PatternsOccurring(text) ==
    Bind(Lower(text), LAMBDA lowered : {p \in 1..Len(Patterns) : KeywordOccurs(lowered, p)})

\* first is the first of the patterns in hits, or there is none and first
\* is GenericSubgraph
FirstOf(hits, first) ==
    /\ \A p \in 1..Len(Patterns) :
         first = PatternNames[p] <=> (p \in hits /\ \A o \in 1..(p - 1) : o \notin hits)
    /\ first = "GenericSubgraph" <=> hits = {}

\* C21: every query selects exactly one of the seven patterns: the first of
\* ActorRole, DirectorRole, GenreMembership, FilmOverview, SeriesOverview,
\* Collaboration one of whose keywords occurs in the query, whatever the
\* letter case, and GenericSubgraph exactly when no keyword occurs.
C21_FirstMatchingPatternIsSelected ==
    retrieval.done =>
        /\ PatternNames = <<"ActorRole", "DirectorRole", "GenreMembership",
                            "FilmOverview", "SeriesOverview", "Collaboration">>
        /\ retrieval.pattern \in SetOf(PatternNames) \cup {"GenericSubgraph"}
        /\ Bind(PatternsOccurring(call.expression), LAMBDA hits : FirstOf(hits, retrieval.pattern))
        /\ retrieval.pattern = Classify(Upper(call.expression))

\* an upper-case query in French with a director keyword and a film
\* keyword is routed to DirectorRole
C21_Witness ==
    /\ retrieval.done
    /\ call.expression = Upper(Join(<< <<"f", "i", "l", "m">>, <<"r", "é", "a", "l", "i", "s", "é">> >>))
    /\ retrieval.pattern = "DirectorRole"

\* C29: a keyword matches as a substring: every query in which "act"
\* occurs, inside "characters" or "actor" too, is routed to ActorRole, and
\* Collaboration is selected only by a query that holds "worked",
\* "together" or "collabor" and no keyword of the five patterns before it.
C29_SubstringMatchRoutesActFirst ==
    retrieval.done =>
        /\ Contains(Lower(call.expression), <<"a", "c", "t">>) => retrieval.pattern = "ActorRole"
        /\ retrieval.pattern = "Collaboration" =>
             /\ \E w \in {<<"w", "o", "r", "k", "e", "d">>,
                          <<"t", "o", "g", "e", "t", "h", "e", "r">>,
                          <<"c", "o", "l", "l", "a", "b", "o", "r">>} :
                    Contains(Lower(call.expression), w)
             /\ \A w \in {<<"a", "c", "t">>, <<"p", "l", "a", "y", "e", "d">>, <<"j", "o", "u", "é">>,
                          <<"d", "i", "r", "e", "c", "t">>, <<"r", "é", "a", "l", "i", "s", "é">>,
                          <<"g", "e", "n", "r", "e">>, <<"t", "y", "p", "e">>,
                          <<"f", "i", "l", "m">>, <<"m", "o", "v", "i", "e">>,
                          <<"s", "e", "r", "i", "e">>, <<"s", "h", "o", "w">>} :
                    ~Contains(Lower(call.expression), w)

\* "Which actors worked together?" goes to ActorRole, not to Collaboration
C29_Witness ==
    /\ retrieval.done
    /\ call.expression = QueryWorkedTogether
    /\ retrieval.pattern = "ActorRole"

(***************************************************************************)
(* Generic search, fusion order, path values (SpecRetrieve)                *)
(***************************************************************************)
\* the words of a query, split at spaces
RECURSIVE Tokens(_)
Tokens(query) ==
    IF query = <<>> THEN {}
    ELSE IF Head(query) = " " THEN Tokens(Tail(query))
    ELSE LET stop == IF \E i \in 1..Len(query) : query[i] = " "
                     THEN CHOOSE i \in 1..Len(query) :
                              query[i] = " " /\ \A j \in 1..(i - 1) : query[j] # " "
                     ELSE Len(query) + 1
         IN  {SubSeq(query, 1, stop - 1)} \cup Tokens(SubSeq(query, stop + 1, Len(query)))

\* the generic traversal of a working store has returned with its records
GenericSearched ==
    /\ HybridCompleted
    /\ "traversal" \notin store.fails
    /\ ~retrieval.hybrid.raised
    /\ Classify(call.expression) = "GenericSubgraph"

\* the node is an end of some relationship and its name contains a token
AnchoredByToken(n) ==
    /\ \E r \in 1..Len(store.rels) : n \in {store.rels[r].src, store.rels[r].dst}
    /\ \E token \in Tokens(call.expression) : NameContains(store.nodes[n], token)

\* C22: when no keyword matches, the generic search is anchored on every
\* node whose name contains some token of the query: a node with a
\* relationship whose name contains a token is on a returned path.
C22_GenericSearchAnchorsOnQueryTokens ==
    GenericSearched =>
        \A n \in 1..Len(store.nodes) :
            AnchoredByToken(n) =>
                \E i \in 1..Len(retrieval.hybrid.traversal_results) :
                    \E c \in 1..Len(retrieval.hybrid.traversal_results[i]) :
                        LET value == retrieval.hybrid.traversal_results[i][c]
                        IN  /\ value.kind = "path"
                            /\ \E k \in 1..Len(value.nodes) : value.nodes[k] = store.nodes[n]

\* the nodes a bound value holds: itself, or the nodes of a path
NodesBound(value) ==
    CASE value.kind = "node" -> {value}
      [] value.kind = "path" -> {value.nodes[k] : k \in 1..Len(value.nodes)}
      [] OTHER -> {}

\* C24: every node bound in a traversal record, a node of a path value of
\* the generic pattern included, whose key is usable is in the fused
\* context, and with source=traversal and score 0.5 unless a vector result
\* has its key.
C24_EveryBoundNodeIsFused ==
    (HybridCompleted /\ ~retrieval.hybrid.raised) =>
        \A r \in 1..Len(retrieval.hybrid.traversal_results) :
            \A c \in 1..Len(retrieval.hybrid.traversal_results[r]) :
                \A node \in NodesBound(retrieval.hybrid.traversal_results[r][c]) :
                    Truthy(NodeKey(node)) =>
                        \E i \in 1..Len(retrieval.hybrid.nodes) :
                            LET entry == retrieval.hybrid.nodes[i]
                            IN  /\ entry.key = NodeKey(node)
                                /\ \/ entry.source = "vector"
                                   \/ /\ entry.source = "traversal"
                                      /\ entry.similarity = TraversalDefault

\* the labels of the schema
SchemaLabels == {"Film", "Serie", "Actor", "Director", "Genre"}
OnlySchemaLabels(st) == \A i \in 1..Len(st.nodes) : st.nodes[i].labels \subseteq SchemaLabels

Usable(value) == value.kind = "node" /\ Truthy(NodeKey(value))
VectorArrivals ==
    SelectSeq([i \in 1..Len(vector_results) |->
                  Entry(NodeKey(vector_results[i].n), vector_results[i].n,
                        vector_results[i].similarity, "vector")],
              LAMBDA e : Usable(e.node))
TraversalArrivals ==
    SelectSeq(Flatten([r \in 1..Len(traversal_results) |->
                          [c \in 1..Len(traversal_results[r]) |->
                              Entry(NodeKey(traversal_results[r][c]), traversal_results[r][c],
                                    TraversalDefault, "traversal")]]),
              LAMBDA e : Usable(e.node))
Arrivals == VectorArrivals \o TraversalArrivals

\* entries is a subsequence of arrivals
RECURSIVE IsSubsequence(_, _)
IsSubsequence(entries, arrivals) ==
    IF entries = <<>> THEN TRUE
    ELSE IF arrivals = <<>> THEN FALSE
    ELSE IF Head(entries) = Head(arrivals) THEN IsSubsequence(Tail(entries), Tail(arrivals))
    ELSE IsSubsequence(entries, Tail(arrivals))

\* C23 as stated: the fused sequence lists the vector results in their
\* ranked input order, then the traversal nodes not already present in the
\* order they are met: it is a subsequence of the arrivals.
C23_FusedNodesKeepInputOrder ==
    context_nodes.done => IsSubsequence(context_nodes.nodes, Arrivals)

\* the keys of the arrivals, each at its first occurrence
RECURSIVE FirstOccurrences(_, _)
FirstOccurrences(seen, keys) ==
    IF keys = <<>> THEN seen
    ELSE FirstOccurrences(IF \E i \in 1..Len(seen) : seen[i] = Head(keys)
                          THEN seen ELSE Append(seen, Head(keys)),
                          Tail(keys))

\* the last vector arrival with the key, or else the first traversal one
KeptArrival(arrivals, key) ==
    LET vs == {i \in 1..Len(arrivals) : arrivals[i].key = key /\ arrivals[i].source = "vector"}
        ts == {i \in 1..Len(arrivals) : arrivals[i].key = key}
    IN  IF vs # {} THEN arrivals[CHOOSE i \in vs : \A j \in vs : j <= i]
        ELSE arrivals[CHOOSE i \in ts : \A j \in ts : i <= j]

\* the keys of nodes are the keys of the arrivals in order of first
\* occurrence, each with the arrival kept for it, vector entries first
OrderedByFirstOccurrence(nodes, arrivals) ==
    /\ [i \in 1..Len(nodes) |-> nodes[i].key]
         = FirstOccurrences(<<>>, [i \in 1..Len(arrivals) |-> arrivals[i].key])
    /\ \A i \in 1..Len(nodes) : nodes[i] = KeptArrival(arrivals, nodes[i].key)
    /\ \A i, j \in 1..Len(nodes) :
         (nodes[i].source = "traversal" /\ nodes[j].source = "vector") => j < i

\* C23, amended: fusion does not sort; the keys of the fused sequence are
\* the keys of the arrivals in order of first occurrence, vector keys
\* first.  The entry of a key is its last vector result, or without one
\* its first traversal node, so a vector result that repeats an earlier
\* key takes the earlier position.
C23_FusedKeysKeepFirstOccurrenceOrder ==
    context_nodes.done =>
        Bind(Arrivals, LAMBDA arrivals : OrderedByFirstOccurrence(context_nodes.nodes, arrivals))

\* three vector results of which the third repeats the key of the first,
\* and two records that bind one new node each and one node seen before
C23_Witness ==
    /\ context_nodes.done
    /\ Len(VectorArrivals) = 3
    /\ VectorArrivals[1].key = VectorArrivals[3].key
    /\ VectorArrivals[1].key # VectorArrivals[2].key
    /\ Len(TraversalArrivals) = 4
    /\ [i \in 1..Len(context_nodes.nodes) |-> context_nodes.nodes[i].source]
         = <<"vector", "vector", "traversal", "traversal">>
    /\ context_nodes.nodes[1].node = VectorArrivals[3].node

(***************************************************************************)
(* Malformed results (SpecMalformed)                                       *)
(***************************************************************************)
\* a node-shaped value whose key is text
WellFormed(value) ==
    value.kind = "node" /\ Truthy(NodeKey(value)) /\ ~Unhashable(NodeKey(value))

WellFormedKeys ==
    {NodeKey(vector_results[i].n) :
        i \in {k \in 1..Len(vector_results) : WellFormed(vector_results[k].n)}}
    \cup UNION {{NodeKey(traversal_results[r][c]) :
                    c \in {k \in 1..Len(traversal_results[r]) : WellFormed(traversal_results[r][k])}} :
                r \in 1..Len(traversal_results)}

\* C25: fusion never fails on malformed data: whatever entries are not
\* node-shaped, lack id and name, have a null or empty key or a key of an
\* unusable type, fusion completes, skips them and fuses every
\* well-formed entry.
C25_FusionSkipsMalformedEntries ==
    context_nodes.done =>
        /\ ~context_nodes.raised
        /\ \A i \in 1..Len(context_nodes.nodes) : WellFormed(context_nodes.nodes[i].node)
        /\ \A key \in WellFormedKeys :
             \E i \in 1..Len(context_nodes.nodes) : context_nodes.nodes[i].key = key

(***************************************************************************)
(* Rendering (SpecRender)                                                  *)
(***************************************************************************)
\* one node was rendered
Rendered == retrieval.done /\ Len(store.nodes) = 1
RenderedNode == store.nodes[1]
HasAny(node, keys) == \E k \in keys : HasProp(node.items, k)

\* C26: the kind in the head line follows these rules in this order: a node
\* with seasons or episodes is a series; otherwise one with year or
\* duration is a film; otherwise one with nationality or born is a person,
\* labelled Actor; a node with only a name is a genre.
C26_KindFollowsRulesInOrder ==
    Rendered =>
        LET kind == retrieval.context[1].type
        IN  IF HasAny(RenderedNode, {"seasons", "episodes"}) THEN kind = "Serie"
            ELSE IF HasAny(RenderedNode, {"year", "duration"}) THEN kind = "Film"
            ELSE IF HasAny(RenderedNode, {"nationality", "born"}) THEN kind = "Actor"
            ELSE ({RenderedNode.items[i].k : i \in 1..Len(RenderedNode.items)} = {"name"})
                    => kind = "Genre"

\* the properties a line is promised for: all but embedding and id whose
\* value is not null
RemainingProps(node) ==
    SelectSeq(node.items, LAMBDA it : it.k \notin {"embedding", "id"} /\ it.v # NoneProp)

\* C27: a rendered node is one "Kind: name" line followed by exactly one
\* "key: value" line for each remaining property whose value is not null,
\* the values 0, false and "" included, and no line for embedding or id.
C27_OneLinePerNonNullProperty ==
    Rendered =>
        LET props == RemainingProps(RenderedNode)
        IN  /\ Len(retrieval.context) = 1 + Len(props)
            /\ retrieval.context[1].line = "head"
            /\ \A i \in 1..Len(props) :
                 /\ retrieval.context[i + 1].line = "prop"
                 /\ retrieval.context[i + 1].key = props[i].k
                 /\ retrieval.context[i + 1].value = props[i].v

====
